---- MODULE Spec2Model ----
(***************************************************************************)
(* A model of librealgebra: the term object model (la-term), the symbol    *)
(* interner, the De Bruijn cache, the parser (la-parse).                    *)
(*                                                                         *)
(* Three specifications share the variables:                                *)
(*   SpecCache  the De Bruijn cache as a value, driven by insert, >> and    *)
(*              contains (la-term/src/variable.rs);                         *)
(*   Spec       the heap of terms and the interner, driven by the term      *)
(*              constructors and Symbols::get;                              *)
(*   SpecParse  one run of the parser demo on a lexeme sequence.            *)
(***************************************************************************)
EXTENDS Integers, Sequences, FiniteSets, TLC

VARIABLES
    cache,      \* SpecCache: the DeBruijnCache value under test (its bits)
    hist,       \* SpecCache: the indices inserted since the cache was EMPTY
    cop,        \* SpecCache: the last cache operation, with its operands
    heap,       \* the allocated objects; a pointer is an index into heap
    symbols,    \* Symbols.symbols: the interner's entries (pointers)
    got,        \* the handles Symbols::get has returned: <<name, pointer>>;
                \* SpecHandles: the live handles, <<number, pointer>>
    input,      \* SpecParse: the text given to the parser, as lexemes
    result      \* SpecParse: what parse_term did with it

cacheVars == <<cache, hist, cop>>
termVars  == <<heap, symbols, got>>
parseVars == <<input, result>>
vars == <<cache, hist, cop, heap, symbols, got, input, result>>

(***************************************************************************)
(* Option<T>                                                               *)
(***************************************************************************)
None == [tag |-> "None"]
Some(v) == [tag |-> "Some", val |-> v]

(***************************************************************************)
(* Machine integers                                                        *)
(***************************************************************************)
\* A De Bruijn index far beyond the cache (DeBruijn(pub u32)): 2^30.
BigIndex == 1024 * 1024 * 1024

\* i32::MAX, the largest integer literal i32::from_str_radix accepts.
I32Max == 2147483647

\* The width of DeBruijnCache.bits (u16).
CacheWidth == 16

\* 1 << n for n in 0 .. 16.
Pow2(n) ==
    <<1, 2, 4, 8, 16, 32, 64, 128, 256, 512, 1024, 2048, 4096, 8192,
      16384, 32768, 65536>>[n + 1]

\* Bit i of the u16 n, as 0 or 1.
Bit(n, i) == (n \div Pow2(i)) % 2

RECURSIVE OrBits(_, _, _)
OrBits(a, b, i) ==
    IF i = CacheWidth THEN 0
    ELSE (IF Bit(a, i) = 1 \/ Bit(b, i) = 1 THEN Pow2(i) ELSE 0)
         + OrBits(a, b, i + 1)

(***************************************************************************)
(* De Bruijn caches (la-term/src/variable.rs)                              *)
(***************************************************************************)
EMPTY == 0

UNKNOWN == 65535

is_unknown(self) == self = UNKNOWN

\* A mutant of contains: the "unknown" state is not looked at.
contains_ignores_unknown(self, de_bruijn) ==
    IF de_bruijn >= 16 THEN Some(FALSE)
    ELSE Some(Bit(self, de_bruijn) # 0)

\* self.bits & 1 << de_bruijn.0 != 0, behind the two early answers.
contains(self, de_bruijn) ==
    IF is_unknown(self) THEN None
    ELSE IF de_bruijn >= 16 THEN Some(FALSE)
    ELSE Some(Bit(self, de_bruijn) # 0)

\* A mutant of insert: the threshold is off by one and index 15 is lost.
insert_off_by_one(self, de_bruijn) ==
    IF de_bruijn >= 15 THEN UNKNOWN
    ELSE OrBits(self, Pow2(de_bruijn), 0)

insert(self, de_bruijn) ==
    IF de_bruijn >= 16 THEN UNKNOWN
    ELSE OrBits(self, Pow2(de_bruijn), 0)

bitor(self, rhs) == OrBits(self, rhs, 0)

\* u16::checked_shr(rhs) is None for rhs >= 16.
checked_shr(bits, rhs) == IF rhs >= CacheWidth THEN None ELSE Some(bits \div Pow2(rhs))

unwrap_or(opt, default) == IF opt.tag = "Some" THEN opt.val ELSE default

\* A mutant of >>: the shift amount wraps (wrapping_shr) instead of
\* clearing the cache.
shr_wrapping(self, rhs) ==
    IF is_unknown(self) THEN self
    ELSE self \div Pow2(rhs % CacheWidth)

shr(self, rhs) ==
    IF is_unknown(self) THEN self
    ELSE unwrap_or(checked_shr(self, rhs), 0)

(***************************************************************************)
(* Terms (la-term/src/lib.rs and the module of each kind)                  *)
(*                                                                         *)
(* The heap is the sequence of allocated objects; a Term handle is the     *)
(* index of its object. An object is a header and a payload.               *)
(***************************************************************************)
\* Header::new(kind): a reference count of one and the kind. This Header
\* holds no De Bruijn cache.
Header_new(kind) == [ref_count |-> 1, kind |-> kind]

\* Header::new(kind, de_bruijn_cache), as variable.rs, string.rs and
\* symbol.rs call it.
Header_new_cache(kind, de_bruijn_cache) ==
    [ref_count |-> 1, kind |-> kind, de_bruijn_cache |-> de_bruijn_cache]

\* Term::new: allocate, let init write the payload, write the header.
Term_new(h, header, payload) ==
    [heap |-> Append(h, [header |-> header, payload |-> payload]),
     ptr |-> Len(h) + 1]

ptr_eq(a, b) == a = b

Term_variable(h, de_bruijn) ==
    Term_new(h, Header_new_cache("Variable", insert(EMPTY, de_bruijn)),
             [de_bruijn |-> de_bruijn])

Term_application(h, function, arguments) ==
    Term_new(h, Header_new("Application"),
             [function |-> function, arguments |-> arguments])

Term_lambda(h, parameters, body) ==
    Term_new(h, Header_new("Lambda"), [parameters |-> parameters, body |-> body])

Term_integer_i32(h, value) ==
    Term_new(h, Header_new("Integer"), [value |-> value])

Term_string(h, bytes) ==
    Term_new(h, Header_new_cache("String", EMPTY), [bytes |-> bytes])

Term_symbol_uninterned(h, name) ==
    Term_new(h, Header_new_cache("Symbol", EMPTY), [name |-> name])

\* u32::MAX, stated without writing the number.
IsU32Max(n) == n \div 65536 = 65535 /\ n % 65536 = 65535

\* impl Clone for Term: one more reference to the same object. (At
\* u32::MAX the process aborts: the actions guard against it.)
Term_clone(h, ptr) == [h EXCEPT ![ptr].header.ref_count = @ + 1]

\* impl Drop for Term: the body of drop is empty (two TODO comments), so
\* the object and its reference count stay as they are.
Term_drop(h, ptr) == h

\* term.header().de_bruijn_cache: the cache the header holds; the read of a
\* header that was built without one yields any bit pattern.
Header_de_bruijn_cache(header, unwritten) ==
    IF "de_bruijn_cache" \in DOMAIN header
    THEN {header.de_bruijn_cache}
    ELSE unwritten

\* Symbol::name
Symbol_name(h, ptr) == h[ptr].payload.name

(***************************************************************************)
(* Symbol interning (la-term/src/symbol.rs)                                *)
(***************************************************************************)
\* A mutant of the table lookup: entries are compared by address, so a
\* name is never found.
find_entry_by_address(h, syms, name) == {}

\* HashSet<Entry>::get(name): Entry hashes and compares by name.
find_entry(h, syms, name) == {e \in syms : Symbol_name(h, e) = name}

\* Symbols::get: the entry with that name, or a new symbol term entered
\* into the table; the handle returned is a clone of the entry's.
Symbols_get(h, syms, name) ==
    LET found == find_entry(h, syms, name) IN
    IF found # {}
    THEN LET e == CHOOSE e \in found : TRUE IN
         [heap |-> Term_clone(h, e), symbols |-> syms, ptr |-> e]
    ELSE LET t == Term_symbol_uninterned(h, name) IN
         [heap |-> Term_clone(t.heap, t.ptr),
          symbols |-> syms \cup {t.ptr},
          ptr |-> t.ptr]

(***************************************************************************)
(* Lexing (la-parse/src/lex.rs)                                            *)
(*                                                                         *)
(* The text is a sequence of lexemes, the maximal matches of the token     *)
(* patterns with the whitespace between them skipped:                      *)
(*   [t |-> "Comma"], "Pipe", "Tilde", "LeftParenthesis",                  *)
(*   "RightParenthesis", [t |-> "Digits", digits |-> <<2, 1>>],            *)
(*   [t |-> "Quoted", bytes |-> "s"], [t |-> "Letters", text |-> "f"],     *)
(*   and [t |-> "Other"] for a character no pattern matches.               *)
(***************************************************************************)
\* i32::from_str_radix(slice, 10) on a string of digits: the value, or an
\* error when it does not fit in an i32.
RECURSIVE from_str_radix(_, _)
from_str_radix(digits, acc) ==
    IF digits = <<>> THEN Some(acc)
    ELSE IF acc > (I32Max - Head(digits)) \div 10 THEN None
    ELSE from_str_radix(Tail(digits), acc * 10 + Head(digits))

\* lex_integer: a callback that answers None makes the lexer emit Error.
lex_integer(slice) == from_str_radix(slice, 0)

\* The token the lexer emits for a lexeme.
Token(lexeme) ==
    CASE lexeme.t = "Digits" ->
            LET v == lex_integer(lexeme.digits) IN
            IF v = None THEN [t |-> "Error"]
            ELSE [t |-> "Integer", value |-> v.val]
      [] lexeme.t = "Quoted" -> [t |-> "String", bytes |-> lexeme.bytes]
      [] lexeme.t = "Letters" -> [t |-> "Identifier", name |-> lexeme.text]
      [] lexeme.t = "Other" -> [t |-> "Error"]
      [] OTHER -> [t |-> lexeme.t]

(***************************************************************************)
(* Scopes (la-parse/src/scope.rs)                                          *)
(***************************************************************************)
\* The index the HashMap holds for a name: collect() inserts the pairs in
\* order, and a later pair replaces an earlier one with the same key.
LastIndex(names, name) ==
    CHOOSE j \in DOMAIN names :
        names[j] = name /\ \A k \in DOMAIN names : names[k] = name => k <= j

\* A mutant of Scope::new: the parameters are numbered from the right.
Scope_new_reversed(parent, names) ==
    [parent |-> parent,
     variables |-> [name \in {names[j] : j \in DOMAIN names} |->
                       Len(names) - LastIndex(names, name)]]

\* Scope::new: the variables get De Bruijn indices starting at zero.
Scope_new(parent, names) ==
    [parent |-> parent,
     variables |-> [name \in {names[j] : j \in DOMAIN names} |->
                       LastIndex(names, name) - 1]]

\* Scope::get, with the loop's shift as a parameter.
RECURSIVE Scope_get_from(_, _, _)
Scope_get_from(self, name, shift) ==
    IF name \in DOMAIN self.variables
    THEN Some(self.variables[name] + shift)
    ELSE IF self.parent.tag = "Some"
    THEN Scope_get_from(self.parent.val, name,
                        shift + Cardinality(DOMAIN self.parent.val.variables))
    ELSE None

Scope_get(self, name) == Scope_get_from(self, name, 0)

(***************************************************************************)
(* Parsing (la-parse/src/parse.rs)                                         *)
(*                                                                         *)
(* The parser's state st is [heap, symbols, lex]: the objects, the         *)
(* interner and the tokens not yet read. A function answers                *)
(*   [res |-> "Ok", val |-> v, st |-> st']  for Ok(v),                     *)
(*   [res |-> "Err", st |-> st']            for Err(Error),                *)
(*   [res |-> "Panic", st |-> st']          when it panics (todo!()).      *)
(***************************************************************************)
Ok(v, st) == [res |-> "Ok", val |-> v, st |-> st]
Panic(st) == [res |-> "Panic", st |-> st]

\* lex.next()
lex_next(st) ==
    IF st.lex = <<>> THEN [tok |-> None, st |-> st]
    ELSE [tok |-> Some(Token(Head(st.lex))), st |-> [st EXCEPT !.lex = Tail(@)]]

\* matches!(token, $token)
matches(tok, t) == tok.t = t

\* parse_optional: consume the next token if it matches.
parse_optional(st, t) ==
    IF st.lex # <<>> /\ matches(Token(Head(st.lex)), t)
    THEN [b |-> TRUE, st |-> [st EXCEPT !.lex = Tail(@)]]
    ELSE [b |-> FALSE, st |-> st]

\* The steps of a function that follow the reading of a token or the return
\* of a call are operators of their own, named after the function and
\* applied to what was read or returned.

\* parse_exact: read the next token; it must match.
parse_exact_token(n, t) ==
    IF n.tok.tag = "Some" /\ matches(n.tok.val, t) THEN Ok(<<>>, n.st)
    ELSE Panic(n.st)

parse_exact(st, t) == parse_exact_token(lex_next(st), t)

parse_identifier_token(n) ==
    IF n.tok.tag = "Some" /\ n.tok.val.t = "Identifier"
    THEN Ok(n.tok.val.name, n.st)
    ELSE Panic(n.st)

parse_identifier(st) == parse_identifier_token(lex_next(st))

parse_strictness_tilde(tilde) ==
    [val |-> IF tilde.b THEN "NonStrict" ELSE "Strict", st |-> tilde.st]

parse_strictness(st) == parse_strictness_tilde(parse_optional(st, "Tilde"))

\* symbols.get(name) on the parser's state.
st_symbols_got(st, g) ==
    [ptr |-> g.ptr, st |-> [st EXCEPT !.heap = g.heap, !.symbols = g.symbols]]

st_symbols_get(st, name) ==
    st_symbols_got(st, Symbols_get(st.heap, st.symbols, name))

parse_parameter_interned(strictness, g) ==
    Ok([strictness |-> strictness, name |-> g.ptr], g.st)

parse_parameter_name(strictness, n) ==
    IF n.res # "Ok" THEN n
    ELSE parse_parameter_interned(strictness, st_symbols_get(n.st, n.val))

parse_parameter_strictness(s) ==
    parse_parameter_name(s.val, parse_identifier(s.st))

parse_parameter(st) == parse_parameter_strictness(parse_strictness(st))

\* A constructor's term, returned as Ok with the heap it was built in.
Built(t, st) == Ok(t.ptr, [st EXCEPT !.heap = t.heap])

RECURSIVE parse_term(_, _)
RECURSIVE parse_term_2(_, _)
RECURSIVE parse_term_2_loop(_, _, _)
RECURSIVE parse_term_1(_, _)
RECURSIVE parse_argument_list(_, _)
RECURSIVE parse_comma(_, _, _, _)
RECURSIVE parse_comma_loop(_, _, _, _, _)

\* parse_comma's parse_element: parse_parameter between the pipes of a
\* lambda, parse_term in an argument list.
parse_element(st, element, scope) ==
    IF element = "parameter" THEN parse_parameter(st) ELSE parse_term(st, scope)

\* parse_comma after the optional comma: the terminator ends the list;
\* without it a comma continues the loop and no comma is todo!().
parse_comma_terminator(comma, t, terminator, element, scope, elements) ==
    IF t.b THEN Ok(elements, t.st)
    ELSE IF comma
    THEN parse_comma_loop(t.st, terminator, element, scope, elements)
    ELSE Panic(t.st)

parse_comma_comma(c, terminator, element, scope, elements) ==
    parse_comma_terminator(c.b, parse_optional(c.st, terminator),
                           terminator, element, scope, elements)

parse_comma_element(e, terminator, element, scope, elements) ==
    IF e.res # "Ok" THEN e
    ELSE parse_comma_comma(parse_optional(e.st, "Comma"),
                           terminator, element, scope, Append(elements, e.val))

\* The loop of parse_comma.
parse_comma_loop(st, terminator, element, scope, elements) ==
    parse_comma_element(parse_element(st, element, scope),
                        terminator, element, scope, elements)

parse_comma_first(o, terminator, element, scope) ==
    IF o.b THEN Ok(<<>>, o.st)
    ELSE parse_comma_loop(o.st, terminator, element, scope, <<>>)

\* parse_comma: a comma-separated list up to its terminator; an immediate
\* terminator gives the empty list.
parse_comma(st, terminator, element, scope) ==
    parse_comma_first(parse_optional(st, terminator), terminator, element, scope)

parse_argument_list_arguments(a) ==
    IF a.res # "Ok" THEN a ELSE Ok(Some(a.val), a.st)

parse_argument_list_open(o, scope) ==
    IF o.b
    THEN parse_argument_list_arguments(
            parse_comma(o.st, "RightParenthesis", "term", scope))
    ELSE Ok(None, o.st)

parse_argument_list(st, scope) ==
    parse_argument_list_open(parse_optional(st, "LeftParenthesis"), scope)

\* The clones parameters.iter().map(|p| p.name.clone()) makes.
RECURSIVE clone_names(_, _)
clone_names(h, names) ==
    IF names = <<>> THEN h
    ELSE clone_names(Term_clone(h, Head(names)), Tail(names))

parameter_names(parameters) ==
    [j \in DOMAIN parameters |-> parameters[j].name]

\* Some(Token::Pipe): the lambda of the parameters and the body.
parse_term_1_body(parameters, body) ==
    IF body.res # "Ok" THEN body
    ELSE Built(Term_lambda(body.st.heap, parameters, body.val), body.st)

parse_term_1_parameters(ps, scope) ==
    IF ps.res # "Ok" THEN ps
    ELSE parse_term_1_body(
            ps.val,
            parse_term([ps.st EXCEPT
                           !.heap = clone_names(@, parameter_names(ps.val))],
                       Scope_new(Some(scope), parameter_names(ps.val))))

\* Some(Token::LeftParenthesis): the term, then the closing parenthesis.
parse_term_1_closed(term, x) ==
    IF x.res # "Ok" THEN x ELSE Ok(term, x.st)

parse_term_1_inner(term) ==
    IF term.res # "Ok" THEN term
    ELSE parse_term_1_closed(term.val, parse_exact(term.st, "RightParenthesis"))

\* Some(Token::Identifier(name)): a variable if the scope has the name, the
\* symbol otherwise.
parse_term_1_scoped(g, d) ==
    IF d.tag = "Some"
    THEN Built(Term_variable(g.st.heap, d.val), g.st)
    ELSE Ok(g.ptr, g.st)

parse_term_1_name(g, scope) == parse_term_1_scoped(g, Scope_get(scope, g.ptr))

parse_term_1_token(n, scope) ==
    IF n.tok.tag = "None" THEN Panic(n.st)
    ELSE CASE n.tok.val.t = "Pipe" ->
                 parse_term_1_parameters(
                     parse_comma(n.st, "Pipe", "parameter", scope), scope)
           [] n.tok.val.t = "LeftParenthesis" ->
                 parse_term_1_inner(parse_term(n.st, scope))
           [] n.tok.val.t = "Integer" ->
                 Built(Term_integer_i32(n.st.heap, n.tok.val.value), n.st)
           [] n.tok.val.t = "String" ->
                 Built(Term_string(n.st.heap, n.tok.val.bytes), n.st)
           [] n.tok.val.t = "Identifier" ->
                 parse_term_1_name(st_symbols_get(n.st, n.tok.val.name), scope)
           [] OTHER -> Panic(n.st)

parse_term_1(st, scope) == parse_term_1_token(lex_next(st), scope)

\* A mutant of parse_term_2: one argument list is read, not a chain.
parse_term_2_once(a, scope, term) ==
    IF a.res # "Ok" THEN a
    ELSE IF a.val = None THEN Ok(term, a.st)
    ELSE Built(Term_application(a.st.heap, term, a.val.val), a.st)

parse_term_2_applied(t, st, scope) ==
    parse_term_2_loop([st EXCEPT !.heap = t.heap], scope, t.ptr)

\* The body of the while loop of parse_term_2: an argument list wraps the
\* term read so far in an application, and the loop goes on.
parse_term_2_arguments(a, scope, term) ==
    IF a.res # "Ok" THEN a
    ELSE IF a.val = None THEN Ok(term, a.st)
    ELSE parse_term_2_applied(
            Term_application(a.st.heap, term, a.val.val), a.st, scope)

parse_term_2_loop(st, scope, term) ==
    parse_term_2_arguments(parse_argument_list(st, scope), scope, term)

parse_term_2_first(r, scope) ==
    IF r.res # "Ok" THEN r ELSE parse_term_2_loop(r.st, scope, r.val)

parse_term_2(st, scope) == parse_term_2_first(parse_term_1(st, scope), scope)

parse_term(st, scope) == parse_term_2(st, scope)

(***************************************************************************)
(* Constants and builtins (la-simplify/src/constants.rs, builtins/mod.rs)  *)
(***************************************************************************)
\* The symbols! of the constants table, in the order Constants::new gets
\* them from the interner.
ConstantSymbols ==
    <<"Antiderivative", "Derivative", "Add", "Ln", "Multiply", "Power",
      "Cos", "Sin", "Tan", "E", "Pi", "x">>

\* symbols.get for each name of a list, one after the other; got maps the
\* names to the handles.
RECURSIVE get_all(_, _)
get_all(g, names) ==
    IF names = <<>> THEN g
    ELSE get_all(
            [heap |-> Symbols_get(g.heap, g.symbols, Head(names)).heap,
             symbols |-> Symbols_get(g.heap, g.symbols, Head(names)).symbols,
             got |-> [gn \in DOMAIN g.got \cup {Head(names)} |->
                         IF gn = Head(names)
                         THEN Symbols_get(g.heap, g.symbols, Head(names)).ptr
                         ELSE g.got[gn]]],
            Tail(names))

\* The first pointer a constructor gives in heap h is Len(h) + 1, the next
\* Len(h) + 2, and so on: Constants::new allocates, after the symbols,
\* integer_neg_1, integer_0, integer_1, variable_0, and for lambda_neg_Sin
\* the application Sin(variable_0), the application Multiply(-1, Sin(..))
\* and the lambda.
Constants_table(g, h0) ==
    [symbol |-> g.got,
     integer_neg_1 |-> Len(h0) + 1,
     integer_0 |-> Len(h0) + 2,
     integer_1 |-> Len(h0) + 3,
     variable_0 |-> Len(h0) + 4,
     parameters_sx |-> <<[strictness |-> "Strict", name |-> g.got["x"]]>>,
     parameters_nx |-> <<[strictness |-> "NonStrict", name |-> g.got["x"]]>>,
     lambda_neg_Sin |-> Len(h0) + 7]

\* The heap after the integers! and variables! of Constants::new.
Constants_atoms(h) ==
    Term_variable(
        Term_integer_i32(
            Term_integer_i32(Term_integer_i32(h, -1).heap, 0).heap, 1).heap,
        0).heap

\* The heap after custom!: Term::lambda(parameters_sx.clone(),
\* Term::application(Multiply.term(), [integer_neg_1.clone(),
\* Term::application(Sin.term(), [variable_0.clone()])])).
Constants_custom(h, k) ==
    Term_lambda(
        Term_application(
            Term_clone(
                Term_clone(
                    Term_application(
                        Term_clone(Term_clone(h, k.symbol["Sin"]), k.variable_0),
                        k.symbol["Sin"], <<k.variable_0>>).heap,
                    k.symbol["Multiply"]),
                k.integer_neg_1),
            k.symbol["Multiply"], <<k.integer_neg_1, k.variable_0 + 1>>).heap,
        k.parameters_sx, k.variable_0 + 2).heap

\* parameter!(x) clones the symbol x for parameters_sx and for parameters_nx.
Constants_parameters(h, x) == Term_clone(Term_clone(h, x), x)

Constants_built(g) ==
    [heap |-> Constants_custom(
                  Constants_atoms(Constants_parameters(g.heap, g.got["x"])),
                  Constants_table(g, g.heap)),
     symbols |-> g.symbols,
     constants |-> Constants_table(g, g.heap)]

\* Constants::new(&symbols)
Constants_new(h, syms) ==
    Constants_built(
        get_all([heap |-> h, symbols |-> syms, got |-> <<>>], ConstantSymbols))

\* builtins!: the symbols that have a handler.
BuiltinNames == {"Derivative", "Cos", "Sin"}

\* Builtins::new: the jump table from symbol to handler (each key a clone
\* of the constant's handle).
Builtins_new(constants) ==
    [bk \in {constants.symbol[bn] : bn \in BuiltinNames} |->
        CHOOSE bn \in BuiltinNames : constants.symbol[bn] = bk]

RECURSIVE clone_all(_, _)
clone_all(h, ptrs) ==
    IF ptrs = <<>> THEN h ELSE clone_all(Term_clone(h, Head(ptrs)), Tail(ptrs))

\* Builtins::get
Builtins_get(builtins, symbol) ==
    IF symbol \in DOMAIN builtins THEN Some(builtins[symbol]) ELSE None

(***************************************************************************)
(* The simplifier (la-simplify/src/lib.rs)                                 *)
(*                                                                         *)
(* A context c holds what Context refers to, and the heap:                 *)
(*   heap, symbols      the objects and the interner                       *)
(*   recursion_limit    Context::recursion_limit                           *)
(*   stop_after         the host sets stop_requested once simplify has     *)
(*                      been entered this many times (NoStop: never)       *)
(*   entered            the number of entries to simplify so far           *)
(*   unwritten          what a read of a header cache that no constructor  *)
(*                      wrote yields                                       *)
(*   session            Session::definitions, symbol to term               *)
(*   constants, builtins                                                   *)
(*   warnings           what the warner was given                          *)
(*   log                one event for each finished call of simplify and   *)
(*                      of recurse                                         *)
(* A function answers [res |-> "Ok", val |-> v, c |-> c'] when it returns  *)
(* v, [res |-> "StopRequested", c |-> c'] when panic_any(StopRequested)    *)
(* unwinds through it and [res |-> "Todo", c |-> c'] when todo!() does.    *)
(***************************************************************************)
NoStop == -1

Return(v, c) == [res |-> "Ok", val |-> v, c |-> c]
Unwind(panic, c) == [res |-> panic, c |-> c]

\* c.stop_requested.load(SeqCst)
stop_requested(c) == c.stop_after # NoStop /\ c.entered >= c.stop_after

\* term.clone() in context c
c_clone(c, term) == [c EXCEPT !.heap = Term_clone(@, term)]

\* The term a constructor built, returned in the context's heap.
c_built(c, t) == Return(t.ptr, [c EXCEPT !.heap = t.heap])
c_built_some(c, t) == Return(Some(t.ptr), [c EXCEPT !.heap = t.heap])

eq_integer_i32(h, term, value) ==
    h[term].header.kind = "Integer" /\ h[term].payload.value = value

eq_variable(h, term, de_bruijn) ==
    h[term].header.kind = "Variable" /\ h[term].payload.de_bruijn = de_bruijn

eq_symbol(term, symbol) == term = symbol

\* The event of a finished call: the function, its term, the length of the
\* log, whether the stop flag was set and what recursion_limit was on
\* entry, how it ended, and the entries to simplify and the allocations
\* made meanwhile.  val is the term returned (0: none).
Event(fn, term, c, r, val) ==
    [fn |-> fn, term |-> term, from |-> Len(c.log),
     stop |-> stop_requested(c), before |-> c.recursion_limit,
     after |-> r.c.recursion_limit, res |-> r.res, val |-> val,
     entries |-> r.c.entered - c.entered,
     allocated |-> Len(r.c.heap) - Len(c.heap)]

\* A call that returns a Term.
Logged(fn, term, c, r) ==
    [r EXCEPT !.c.log =
        Append(@, Event(fn, term, c, r, IF r.res = "Ok" THEN r.val ELSE 0))]

\* A call that returns an Option<Term>.
Answered(fn, term, c, r) ==
    [r EXCEPT !.c.log =
        Append(@, Event(fn, term, c, r,
                        IF r.res = "Ok" /\ r.val # None THEN r.val.val ELSE 0))]

RECURSIVE simplify(_, _)
RECURSIVE recurse(_, _)
RECURSIVE simplify_application(_, _, _)
RECURSIVE simplify_symbol(_, _)
RECURSIVE Cos_simplify(_, _)
RECURSIVE Sin_simplify(_, _)
RECURSIVE Derivative_simplify(_, _)
RECURSIVE of_function(_, _)
RECURSIVE of_term(_, _, _)
RECURSIVE of_add(_, _, _)

\* A mutant of the guard: the closure runs on return only
\* (as with Guard::skip on the unwinding path).
Guard_drop_on_return(r) ==
    IF r.res = "Ok" THEN [r EXCEPT !.c.recursion_limit = @ + 1] ELSE r

\* A mutant of the guard: the closure gives back more than was taken.
Guard_drop_twice(r) == [r EXCEPT !.c.recursion_limit = @ + 2]

\* Guard::drop runs the closure when recurse returns and when a panic
\* unwinds through it: recursion_limit + 1.
Guard_drop(r) == [r EXCEPT !.c.recursion_limit = @ + 1]

\* recurse: simplify with recursion_limit - 1, the guard restoring it.
\* recursion_limit is a Cell<usize>: entered with 0, `limit - 1` panics
\* in a build with overflow checks (it wraps to usize::MAX in one without).
recurse(c, term) ==
    Logged("recurse", term, c,
           IF c.recursion_limit = 0 THEN Unwind("Overflow", c)
           ELSE Guard_drop(simplify([c EXCEPT !.recursion_limit = @ - 1],
                                    term)))

\* .unwrap_or(term)
simplify_unwrap_or(r, term) ==
    IF r.res # "Ok" THEN r ELSE Return(unwrap_or(r.val, term), r.c)

\* A mutant of simplify: the stop flag is consulted before the limit.
simplify_stop_first(c, stop, term) ==
    IF stop THEN Unwind("StopRequested", c)
    ELSE IF c.recursion_limit = 0 THEN Return(term, c)
    ELSE CASE c.heap[term].header.kind = "Application" ->
                 simplify_unwrap_or(
                     simplify_application(c, c.heap[term].payload.function,
                                          c.heap[term].payload.arguments),
                     term)
           [] c.heap[term].header.kind = "Symbol" -> simplify_symbol(c, term)
           [] OTHER -> Return(term, c)

\* A mutant of simplify: a lambda is rebuilt.
simplify_rebuilds_lambda(c, stop, term) ==
    IF c.recursion_limit = 0 THEN Return(term, c)
    ELSE IF stop THEN Unwind("StopRequested", c)
    ELSE CASE c.heap[term].header.kind = "Symbol" -> simplify_symbol(c, term)
           [] c.heap[term].header.kind = "Lambda" ->
                 c_built(c, Term_lambda(c.heap, c.heap[term].payload.parameters,
                                        c.heap[term].payload.body))
           [] c.heap[term].header.kind = "Application" ->
                 simplify_unwrap_or(
                     simplify_application(c, c.heap[term].payload.function,
                                          c.heap[term].payload.arguments),
                     term)
           [] OTHER -> Return(term, c)

\* A mutant of simplify: a Symbol is looked up also when the limit is
\* reached.
simplify_symbol_at_limit(c, stop, term) ==
    IF c.recursion_limit = 0 /\ c.heap[term].header.kind # "Symbol"
    THEN Return(term, c)
    ELSE IF stop THEN Unwind("StopRequested", c)
    ELSE CASE c.heap[term].header.kind = "Application" ->
                 simplify_unwrap_or(
                     simplify_application(c, c.heap[term].payload.function,
                                          c.heap[term].payload.arguments),
                     term)
           [] c.heap[term].header.kind = "Symbol" -> simplify_symbol(c, term)
           [] OTHER -> Return(term, c)

\* The body of simplify, stop being what the load of the flag gives.
simplify_entered(c, stop, term) ==
    IF c.recursion_limit = 0 THEN Return(term, c)
    ELSE IF stop THEN Unwind("StopRequested", c)
    ELSE CASE c.heap[term].header.kind = "Application" ->
                 simplify_unwrap_or(
                     simplify_application(c, c.heap[term].payload.function,
                                          c.heap[term].payload.arguments),
                     term)
           [] c.heap[term].header.kind = "Symbol" -> simplify_symbol(c, term)
           [] OTHER -> Return(term, c)

simplify(c, term) ==
    Logged("simplify", term, c,
           simplify_entered([c EXCEPT !.entered = @ + 1],
                            stop_requested(c), term))

\* c.builtins.get(builtin).and_then(|b| b(c, arguments))
builtins_and_then(c, b, arguments) ==
    IF b = None THEN Return(None, c)
    ELSE CASE b.val = "Cos" -> Cos_simplify(c, arguments)
           [] b.val = "Sin" -> Sin_simplify(c, arguments)
           [] b.val = "Derivative" -> Derivative_simplify(c, arguments)

\* simplify_application once the function has been simplified.
simplify_application_function(r, arguments) ==
    IF r.res # "Ok" THEN r
    ELSE IF r.c.heap[r.val].header.kind = "Symbol"
    THEN builtins_and_then(r.c, Builtins_get(r.c.builtins, r.val), arguments)
    ELSE Unwind("Todo", r.c)

simplify_application(c, function, arguments) ==
    simplify_application_function(recurse(c_clone(c, function), function),
                                  arguments)

\* A mutant of simplify_symbol: the definition is returned as it is.
simplify_symbol_unfolds(c, symbol) ==
    IF symbol \notin DOMAIN c.session THEN Return(symbol, c_clone(c, symbol))
    ELSE Return(c.session[symbol], c_clone(c, c.session[symbol]))

\* A mutant of simplify_symbol: a reserved symbol is simplified like any
\* other definition.
simplify_symbol_recurses(c, symbol) ==
    IF symbol \notin DOMAIN c.session THEN Return(symbol, c_clone(c, symbol))
    ELSE recurse(c_clone(c, c.session[symbol]), c.session[symbol])

simplify_symbol(c, symbol) ==
    IF symbol \notin DOMAIN c.session THEN Return(symbol, c_clone(c, symbol))
    ELSE IF eq_symbol(c.session[symbol], symbol)
    THEN Return(symbol, c_clone(c, symbol))
    ELSE recurse(c_clone(c, c.session[symbol]), c.session[symbol])

(***************************************************************************)
(* The builtins Cos, Sin and Derivative (la-simplify/src/builtins/)        *)
(***************************************************************************)
\* Some(c.constants.X.clone())
c_constant_some(c, constant) == Return(Some(constant), c_clone(c, constant))

\* Some(Term::application(c.constants.F.term(), [operand]))
c_apply_some(c, f, operand) ==
    c_built_some(c, Term_application(Term_clone(c.heap, f), f, <<operand>>))

\* A mutant of Cos: the values at 0 and at Pi are exchanged.
Cos_simplify_exchanged(original, r) ==
    IF r.res # "Ok" THEN r
    ELSE IF eq_integer_i32(r.c.heap, r.val, 0)
    THEN c_constant_some(r.c, r.c.constants.integer_neg_1)
    ELSE IF eq_symbol(r.val, r.c.constants.symbol["Pi"])
    THEN c_constant_some(r.c, r.c.constants.integer_1)
    ELSE IF ptr_eq(r.val, original) THEN Return(None, r.c)
    ELSE c_apply_some(r.c, r.c.constants.symbol["Cos"], r.val)

\* A mutant of Cos: the application is rebuilt also when the operand is
\* the original one.
Cos_simplify_rebuilds(original, r) ==
    IF r.res # "Ok" THEN r
    ELSE IF eq_integer_i32(r.c.heap, r.val, 0)
    THEN c_constant_some(r.c, r.c.constants.integer_1)
    ELSE IF eq_symbol(r.val, r.c.constants.symbol["Pi"])
    THEN c_constant_some(r.c, r.c.constants.integer_neg_1)
    ELSE c_apply_some(r.c, r.c.constants.symbol["Cos"], r.val)

\* Cos once the operand has been simplified.
Cos_simplify_operand(original, r) ==
    IF r.res # "Ok" THEN r
    ELSE IF eq_integer_i32(r.c.heap, r.val, 0)
    THEN c_constant_some(r.c, r.c.constants.integer_1)
    ELSE IF eq_symbol(r.val, r.c.constants.symbol["Pi"])
    THEN c_constant_some(r.c, r.c.constants.integer_neg_1)
    ELSE IF ptr_eq(r.val, original) THEN Return(None, r.c)
    ELSE c_apply_some(r.c, r.c.constants.symbol["Cos"], r.val)

Cos_simplify(c, arguments) ==
    Answered("Cos", IF Len(arguments) = 1 THEN arguments[1] ELSE 0, c,
        IF Len(arguments) # 1 THEN Return(None, c)
        ELSE Cos_simplify_operand(
                arguments[1], recurse(c_clone(c, arguments[1]), arguments[1])))

\* A mutant of Sin: Pi is not recognised.
Sin_simplify_without_Pi(original, r) ==
    IF r.res # "Ok" THEN r
    ELSE IF eq_integer_i32(r.c.heap, r.val, 0)
    THEN c_constant_some(r.c, r.c.constants.integer_0)
    ELSE IF ptr_eq(r.val, original) THEN Return(None, r.c)
    ELSE c_apply_some(r.c, r.c.constants.symbol["Sin"], r.val)

\* Sin once the operand has been simplified.
Sin_simplify_operand(original, r) ==
    IF r.res # "Ok" THEN r
    ELSE IF eq_integer_i32(r.c.heap, r.val, 0)
    THEN c_constant_some(r.c, r.c.constants.integer_0)
    ELSE IF eq_symbol(r.val, r.c.constants.symbol["Pi"])
    THEN c_constant_some(r.c, r.c.constants.integer_0)
    ELSE IF ptr_eq(r.val, original) THEN Return(None, r.c)
    ELSE c_apply_some(r.c, r.c.constants.symbol["Sin"], r.val)

Sin_simplify(c, arguments) ==
    Answered("Sin", IF Len(arguments) = 1 THEN arguments[1] ELSE 0, c,
        IF Len(arguments) # 1 THEN Return(None, c)
        ELSE Sin_simplify_operand(
                arguments[1], recurse(c_clone(c, arguments[1]), arguments[1])))

\* term.header().de_bruijn_cache in context c.
c_de_bruijn_cache(c, term) ==
    IF "de_bruijn_cache" \in DOMAIN c.heap[term].header
    THEN c.heap[term].header.de_bruijn_cache
    ELSE c.unwritten

\* .map(|c| c == false)
map_is_false(opt) == IF opt.tag = "Some" THEN Some(opt.val = FALSE) ELSE None

is_constant(c, parameter, term) ==
    map_is_false(contains(c_de_bruijn_cache(c, term), parameter))

make_add(c, terms) ==
    CASE Len(terms) = 0 ->
            Return(c.constants.integer_0, c_clone(c, c.constants.integer_0))
      [] Len(terms) = 1 -> Return(terms[1], c)
      [] OTHER ->
            c_built(c, Term_application(
                           Term_clone(c.heap, c.constants.symbol["Add"]),
                           c.constants.symbol["Add"], terms))

\* .filter(|term| is_constant(parameter, term) == Some(false))
RECURSIVE of_add_filter(_, _, _)
of_add_filter(c, parameter, terms) ==
    IF terms = <<>> THEN <<>>
    ELSE (IF is_constant(c, parameter, Head(terms)) = Some(FALSE)
          THEN <<Head(terms)>> ELSE <<>>)
         \o of_add_filter(c, parameter, Tail(terms))

\* .map(|term| of_term(c, parameter, term.clone())).collect::<Option<_>>()
\* stops at the first None.
RECURSIVE of_add_map(_, _, _, _)
of_add_mapped(d, parameter, rest, derivatives) ==
    IF d.res # "Ok" \/ d.val = None THEN d
    ELSE of_add_map(d.c, parameter, rest, Append(derivatives, d.val.val))

of_add_map(c, parameter, terms, derivatives) ==
    IF terms = <<>> THEN Return(Some(derivatives), c)
    ELSE of_add_mapped(of_term(c_clone(c, Head(terms)), parameter, Head(terms)),
                       parameter, Tail(terms), derivatives)

\* Some(recurse(c, result))
of_add_recursed(r) == IF r.res # "Ok" THEN r ELSE Return(Some(r.val), r.c)

of_add_made(m) == of_add_recursed(recurse(m.c, m.val))

of_add_collected(r) ==
    IF r.res # "Ok" \/ r.val = None THEN r
    ELSE of_add_made(make_add(r.c, r.val.val))

of_add(c, parameter, terms) ==
    of_add_collected(
        of_add_map(c, parameter, of_add_filter(c, parameter, terms), <<>>))

\* A mutant of of_term: a term not known to contain the parameter counts
\* as a constant.
of_term_unknown_is_constant(c, parameter, term) ==
    Answered("of_term", term, c,
        IF is_constant(c, parameter, term) # Some(FALSE)
        THEN c_constant_some(c, c.constants.integer_0)
        ELSE IF eq_variable(c.heap, term, parameter)
        THEN c_constant_some(c, c.constants.integer_1)
        ELSE IF /\ c.heap[term].header.kind = "Application"
                /\ eq_symbol(c.heap[term].payload.function,
                             c.constants.symbol["Add"])
        THEN of_add(c, parameter, c.heap[term].payload.arguments)
        ELSE Return(None, c))

of_term(c, parameter, term) ==
    Answered("of_term", term, c,
        IF is_constant(c, parameter, term) = Some(TRUE)
        THEN c_constant_some(c, c.constants.integer_0)
        ELSE IF eq_variable(c.heap, term, parameter)
        THEN c_constant_some(c, c.constants.integer_1)
        ELSE IF /\ c.heap[term].header.kind = "Application"
                /\ eq_symbol(c.heap[term].payload.function,
                             c.constants.symbol["Add"])
        THEN of_add(c, parameter, c.heap[term].payload.arguments)
        ELSE Return(None, c))

\* Some(Term::lambda(parameters.clone(), body_derivative)), or the None
\* that of_term(..)? returns.
of_function_body(parameters, d) ==
    IF d.res # "Ok" \/ d.val = None THEN d
    ELSE c_built_some(d.c, Term_lambda(d.c.heap, parameters, d.val.val))

\* A mutant of of_function: lambdas of any number of parameters are
\* differentiated.
of_function_any_arity(c, function) ==
    IF eq_symbol(function, c.constants.symbol["Sin"])
    THEN c_constant_some(c, c.constants.symbol["Cos"])
    ELSE IF eq_symbol(function, c.constants.symbol["Cos"])
    THEN c_constant_some(c, c.constants.lambda_neg_Sin)
    ELSE IF c.heap[function].header.kind = "Lambda"
    THEN of_function_body(
            c.heap[function].payload.parameters,
            of_term(c_clone(c, c.heap[function].payload.body), 0,
                    c.heap[function].payload.body))
    ELSE Return(None, c)

\* The match of of_function.
of_function_match(c, function) ==
    IF eq_symbol(function, c.constants.symbol["Sin"])
    THEN c_constant_some(c, c.constants.symbol["Cos"])
    ELSE IF eq_symbol(function, c.constants.symbol["Cos"])
    THEN c_constant_some(c, c.constants.lambda_neg_Sin)
    ELSE IF /\ c.heap[function].header.kind = "Lambda"
            /\ Len(c.heap[function].payload.parameters) = 1
    THEN of_function_body(
            c.heap[function].payload.parameters,
            of_term(c_clone(c, c.heap[function].payload.body), 0,
                    c.heap[function].payload.body))
    ELSE Return(None, c)

of_function(c, function) ==
    Answered("of_function", function, c, of_function_match(c, function))

\* Derivative once of_function has answered.
Derivative_simplify_derivative(original, function, d) ==
    IF d.res # "Ok" \/ d.val # None THEN d
    ELSE IF ptr_eq(function, original) THEN Return(None, d.c)
    ELSE c_apply_some(d.c, d.c.constants.symbol["Derivative"], function)

\* Derivative once the function has been simplified.
Derivative_simplify_function(original, r) ==
    IF r.res # "Ok" THEN r
    ELSE Derivative_simplify_derivative(
            original, r.val, of_function(c_clone(r.c, r.val), r.val))

Derivative_simplify(c, arguments) ==
    Answered("Derivative", IF Len(arguments) = 1 THEN arguments[1] ELSE 0, c,
        IF Len(arguments) # 1 THEN Return(None, c)
        ELSE Derivative_simplify_function(
                arguments[1], recurse(c_clone(c, arguments[1]), arguments[1])))

(***************************************************************************)
(* Bounds of the exploration                                               *)
(***************************************************************************)
\* Inserts are arbitrary while fewer than MaxScattered distinct indices were
\* inserted; beyond that they fill the small indices in increasing order.
MaxScattered == 2

\* The De Bruijn indices tried: every small one, the first large one, a huge one.
Indices == (0 .. 15) \cup {16, BigIndex}

\* The shift amounts tried (u32).
Shifts == (0 .. 17) \cup {BigIndex}

\* The objects allocated in one run.
MaxHeap == 3

\* The reference count up to which handles are cloned.
MaxRefs == 3

\* The arguments of an application built by the embedder.
MaxArgs == 2

\* The parameters of a lambda built by the embedder.
MaxParams == 1

\* The symbol names, the De Bruijn indices, integers and strings tried.
Names == {"f", "g"}
VarIndices == {0, 16}
IntValues == {0}
StringValues == {"s"}

\* What a read of a header field that was never written may yield:
\* representatives of the 2^16 bit patterns.
Unwritten == {EMPTY, 1, 2, UNKNOWN}

SeqsUpTo(S, n) == UNION {[1 .. k -> S] : k \in 0 .. n}

(***************************************************************************)
(* SpecCache: a DeBruijnCache value under insert, >> and contains          *)
(***************************************************************************)
InitCache ==
    /\ cache = EMPTY
    /\ hist = [fromEmpty |-> TRUE, inserted |-> {}]
    /\ cop = [op |-> "new"]
    /\ heap = <<>>
    /\ symbols = {}
    /\ got = {}
    /\ input = <<>>
    /\ result = [res |-> "Idle"]

Missing == (0 .. 15) \ hist.inserted

InsertExplored(i) ==
    \/ Cardinality(hist.inserted) < MaxScattered
    \/ i \in hist.inserted
    \/ i >= 16
    \/ (Missing # {} /\ \A j \in Missing : i <= j)

\* cache = cache.insert(DeBruijn(i))
CacheInsert(i) ==
    /\ hist.fromEmpty
    /\ cop.op # "contains"
    /\ InsertExplored(i)
    /\ cache' = insert(cache, i)
    /\ hist' = [hist EXCEPT !.inserted = @ \cup {i}]
    /\ cop' = [op |-> "insert", a |-> cache, i |-> i]
    /\ UNCHANGED <<termVars, parseVars>>

\* cache >>= k
CacheShr(k) ==
    /\ cop.op # "contains"
    /\ cache' = shr(cache, k)
    /\ hist' = [fromEmpty |-> FALSE, inserted |-> {}]
    /\ cop' = [op |-> "shr", a |-> cache, k |-> k]
    /\ UNCHANGED <<termVars, parseVars>>

\* cache.contains(DeBruijn(i)). A query leaves the cache as it was: what can
\* follow it is explored from the state before it.
CacheContains(i) ==
    /\ cop.op # "contains"
    /\ cop' = [op |-> "contains", a |-> cache, i |-> i, out |-> contains(cache, i)]
    /\ UNCHANGED <<cache, hist, termVars, parseVars>>

NextCache ==
    \/ \E i \in Indices : CacheInsert(i)
    \/ \E k \in Shifts : CacheShr(k)
    \/ \E i \in Indices : CacheContains(i)

SpecCache == InitCache /\ [][NextCache]_vars

(***************************************************************************)
(* The De Bruijn cache: claims                                             *)
(***************************************************************************)
\* Bit i of the cache a is set, stated on the value of a alone.
HasBit(a, i) == i < CacheWidth /\ (a % Pow2(i + 1)) >= Pow2(i)

\* C4: contains is total and three-valued: the UNKNOWN cache answers None
\* for every index; any other cache answers Some(false) for every index
\* >= 16 and Some(bit i is set) for every index i < 16; EMPTY answers
\* Some(false) for every index.
C4_ContainsThreeValued ==
    cop.op = "contains" =>
        /\ cop.out \in {None, Some(TRUE), Some(FALSE)}
        /\ (cop.a = UNKNOWN => cop.out = None)
        /\ (cop.a # UNKNOWN /\ cop.i >= 16 => cop.out = Some(FALSE))
        /\ (cop.a # UNKNOWN /\ cop.i < 16 => cop.out = Some(HasBit(cop.a, cop.i)))
        /\ (cop.a = EMPTY => cop.out = Some(FALSE))

C4_Witness ==
    /\ cop.op = "contains"
    /\ cop.a \notin {EMPTY, UNKNOWN}
    /\ cop.i < 16
    /\ cop.out = Some(TRUE)

\* C5: starting from EMPTY and inserting any sequence of indices, the cache
\* is UNKNOWN iff some inserted index was >= 16 or every index 0..15 was
\* inserted; otherwise contains(i) is Some(true) exactly for the inserted
\* indices and Some(false) for all others; an insert into an UNKNOWN cache
\* leaves it UNKNOWN.
C5_InsertFromEmpty ==
    hist.fromEmpty =>
        /\ is_unknown(cache) <=>
               \/ \E i \in hist.inserted : i >= 16
               \/ (0 .. 15) \subseteq hist.inserted
        /\ ~is_unknown(cache) =>
               \A i \in Indices : contains(cache, i) = Some(i \in hist.inserted)
        /\ cop.op = "insert" /\ cop.a = UNKNOWN => cache = UNKNOWN

C5_Witness ==
    /\ hist.fromEmpty
    /\ cop.op = "insert"
    /\ hist.inserted = (0 .. 15)
    /\ cache = UNKNOWN

\* C6: UNKNOWN >> k is UNKNOWN for every k; for a cache a that is not
\* UNKNOWN, (a >> k).contains(i) = a.contains(i + k) for all i with
\* i + k < 16, the indices below k are discarded (no index i with
\* i + k >= 16 is in the result), k >= 16 yields EMPTY, and the result is
\* never UNKNOWN.
C6_ShiftRight ==
    cop.op = "shr" =>
        /\ cop.a = UNKNOWN => cache = UNKNOWN
        /\ cop.a # UNKNOWN =>
            /\ cache # UNKNOWN
            /\ \A i \in 0 .. 15 :
                  IF i + cop.k < 16
                  THEN contains(cache, i) = contains(cop.a, i + cop.k)
                  ELSE contains(cache, i) = Some(FALSE)
            /\ cop.k >= 16 => cache = EMPTY

C6_Witness ==
    /\ cop.op = "shr"
    /\ cop.a \notin {EMPTY, UNKNOWN}
    /\ cop.k \in 1 .. 15
    /\ cache # EMPTY

(***************************************************************************)
(* Spec: the heap of terms and the interner, driven by an embedder that    *)
(* interns symbols and builds terms from the handles it has.               *)
(***************************************************************************)
Init ==
    /\ cache = EMPTY
    /\ hist = [fromEmpty |-> TRUE, inserted |-> {}]
    /\ cop = [op |-> "new"]
    /\ heap = <<>>
    /\ symbols = {}
    /\ got = {}
    /\ input = <<>>
    /\ result = [res |-> "Idle"]

Pointers == DOMAIN heap

KindOf(ptr) == heap[ptr].header.kind

SymbolsGet(name) ==
    LET r == Symbols_get(heap, symbols, name) IN
    /\ Len(r.heap) <= MaxHeap
    /\ r.heap[r.ptr].header.ref_count <= MaxRefs
    /\ ~IsU32Max(r.heap[r.ptr].header.ref_count - 1)
    /\ heap' = r.heap
    /\ symbols' = r.symbols
    /\ got' = got \cup {<<name, r.ptr>>}
    /\ UNCHANGED <<cacheVars, parseVars>>

TermVariable(de_bruijn) ==
    /\ Len(heap) < MaxHeap
    /\ heap' = Term_variable(heap, de_bruijn).heap
    /\ UNCHANGED <<symbols, got, cacheVars, parseVars>>

TermInteger(value) ==
    /\ Len(heap) < MaxHeap
    /\ heap' = Term_integer_i32(heap, value).heap
    /\ UNCHANGED <<symbols, got, cacheVars, parseVars>>

TermString(bytes) ==
    /\ Len(heap) < MaxHeap
    /\ heap' = Term_string(heap, bytes).heap
    /\ UNCHANGED <<symbols, got, cacheVars, parseVars>>

TermApplication(function, arguments) ==
    /\ Len(heap) < MaxHeap
    /\ heap' = Term_application(heap, function, arguments).heap
    /\ UNCHANGED <<symbols, got, cacheVars, parseVars>>

TermLambda(parameters, body) ==
    /\ Len(heap) < MaxHeap
    /\ heap' = Term_lambda(heap, parameters, body).heap
    /\ UNCHANGED <<symbols, got, cacheVars, parseVars>>

Parameters ==
    [strictness : {"Strict", "NonStrict"},
     name : {ptr \in Pointers : KindOf(ptr) = "Symbol"}]

Next ==
    \/ \E name \in Names : SymbolsGet(name)
    \/ \E i \in VarIndices : TermVariable(i)
    \/ \E v \in IntValues : TermInteger(v)
    \/ \E b \in StringValues : TermString(b)
    \/ \E f \in Pointers : \E args \in SeqsUpTo(Pointers, MaxArgs) :
          TermApplication(f, args)
    \/ \E ps \in SeqsUpTo(Parameters, MaxParams) : \E body \in Pointers :
          TermLambda(ps, body)

Spec == Init /\ [][Next]_vars

(***************************************************************************)
(* Terms and the interner: claims                                          *)
(***************************************************************************)
\* C1: after any sequence of Symbols::get calls on one interner, two
\* returned handles are pointer-equal iff the names they were requested
\* with are equal; no name has two symbol objects.
C1_SymbolIdentity ==
    /\ \A a \in got : \A b \in got : ptr_eq(a[2], b[2]) <=> a[1] = b[1]
    /\ \A a \in got : KindOf(a[2]) = "Symbol" /\ Symbol_name(heap, a[2]) = a[1]
    /\ \A p \in Pointers : \A q \in Pointers :
          /\ KindOf(p) = "Symbol"
          /\ KindOf(q) = "Symbol"
          /\ Symbol_name(heap, p) = Symbol_name(heap, q)
          => p = q

\* Two names were interned, one of them twice (the entry's reference, and
\* two returned handles).
C1_Witness ==
    /\ \E a \in got : \E b \in got : a[1] # b[1] /\ a[2] # b[2]
    /\ \E a \in got : heap[a[2]].header.ref_count >= 3

\* Variable i occurs free in the term at ptr; a lambda binds as many
\* indices as it has parameters.
RECURSIVE FreeIn(_, _, _)
FreeIn(h, ptr, i) ==
    LET k == h[ptr].header.kind
        pl == h[ptr].payload IN
    CASE k = "Variable" -> pl.de_bruijn = i
      [] k = "Application" ->
            \/ FreeIn(h, pl.function, i)
            \/ \E j \in DOMAIN pl.arguments : FreeIn(h, pl.arguments[j], i)
      [] k = "Lambda" -> FreeIn(h, pl.body, i + Len(pl.parameters))
      [] OTHER -> FALSE

\* C2: for every term built by the constructors and every index i, if the
\* term's header cache answers contains(i) = Some(false), variable i does
\* not occur free in the term.
C2_CacheSound ==
    \A ptr \in Pointers :
        \A c \in Header_de_bruijn_cache(heap[ptr].header, Unwritten) :
            \A i \in Indices :
                contains(c, i) = Some(FALSE) => ~FreeIn(heap, ptr, i)

\* The cache written into the header at ptr, -1 where none was written.
WrittenCache(h, ptr) ==
    IF "de_bruijn_cache" \in DOMAIN h[ptr].header
    THEN h[ptr].header.de_bruijn_cache
    ELSE -1

RECURSIVE OrAll(_)
OrAll(cs) == IF cs = <<>> THEN EMPTY ELSE bitor(Head(cs), OrAll(Tail(cs)))

\* The cache the composition rule gives the term at ptr (-1 where the rule
\* has no written cache of a child to start from).
ComposedCache(h, ptr) ==
    LET k == h[ptr].header.kind
        pl == h[ptr].payload IN
    CASE k = "Variable" -> insert(EMPTY, pl.de_bruijn)
      [] k = "Application" ->
            LET cs == <<WrittenCache(h, pl.function)>>
                      \o [j \in DOMAIN pl.arguments |->
                             WrittenCache(h, pl.arguments[j])] IN
            IF \E j \in DOMAIN cs : cs[j] = -1 THEN -1 ELSE OrAll(cs)
      [] k = "Lambda" ->
            IF WrittenCache(h, pl.body) = -1 THEN -1
            ELSE shr(WrittenCache(h, pl.body), Len(pl.parameters))
      [] OTHER -> EMPTY

\* C3: every constructor writes a header cache that follows the
\* composition rule: Variable(i) gets EMPTY.insert(i); Application(f, args)
\* the OR of the caches of f and of every argument; Lambda(params, body)
\* body.cache >> params.len(); Integer, String and Symbol get EMPTY.
C3_CacheComposition ==
    \A ptr \in Pointers :
        /\ WrittenCache(heap, ptr) # -1
        /\ WrittenCache(heap, ptr) = ComposedCache(heap, ptr)

(***************************************************************************)
(* Texts given to the parser                                               *)
(***************************************************************************)
Comma == [t |-> "Comma"]
Pipe == [t |-> "Pipe"]
Tilde == [t |-> "Tilde"]
LeftParenthesis == [t |-> "LeftParenthesis"]
RightParenthesis == [t |-> "RightParenthesis"]
Other == [t |-> "Other"]
Digits(ds) == [t |-> "Digits", digits |-> ds]
Letters(text) == [t |-> "Letters", text |-> text]
Quoted(bytes) == [t |-> "Quoted", bytes |-> bytes]

\* The digits of i32::MAX and of i32::MAX + 1.
FitsI32 == <<2, 1, 4, 7, 4, 8, 3, 6, 4, 7>>
ExceedsI32 == <<2, 1, 4, 7, 4, 8, 3, 6, 4, 8>>

\* Longest text drawn from the whole alphabet.
MaxRaw == 3
\* Most parameters of a generated lambda.
MaxLambdaParams == 3
\* Most parameters of each of two nested lambdas.
MaxNestedParams == 2
\* Most argument lists after a head, and most arguments in each.
MaxChain == 2
MaxChainArgs == 2

Alphabet ==
    {Comma, Pipe, Tilde, LeftParenthesis, RightParenthesis, Other,
     Digits(<<1>>), Digits(FitsI32), Digits(ExceedsI32),
     Letters("x"), Quoted("s")}

ParamNames == {"x", "y", "z"}
BodyNames == ParamNames \cup {"f"}
ChainHeads == {"symbol", "integer", "parenthesised", "lambda"}
ChainArgs == {1, 3}

NonEmptySeqs(S, n) == UNION {[1 .. k -> S] : k \in 1 .. n}

\* x, y, z  with commas between
RECURSIVE Separated(_)
Separated(items) ==
    IF Len(items) = 0 THEN <<>>
    ELSE IF Len(items) = 1 THEN items[1]
    ELSE items[1] \o <<Comma>> \o Separated(Tail(items))

\* | ~x, y, | : the first parameter non-strict and a trailing comma are
\* options.
ParameterText(names, nonstrict, trailing) ==
    <<Pipe>>
    \o (IF nonstrict THEN <<Tilde>> ELSE <<>>)
    \o Separated([j \in DOMAIN names |-> <<Letters(names[j])>>])
    \o (IF trailing THEN <<Comma>> ELSE <<>>)
    \o <<Pipe>>

ArgumentText(list) ==
    <<LeftParenthesis>>
    \o Separated([j \in DOMAIN list.args |-> <<Digits(<<list.args[j]>>)>>])
    \o (IF list.trailing THEN <<Comma>> ELSE <<>>)
    \o <<RightParenthesis>>

HeadText(head) ==
    CASE head = "symbol" -> <<Letters("f")>>
      [] head = "integer" -> <<Digits(<<7>>)>>
      [] head = "parenthesised" ->
            <<LeftParenthesis, Letters("f"), RightParenthesis>>
      [] head = "lambda" ->
            <<LeftParenthesis, Pipe, Letters("x"), Pipe, Letters("x"),
              RightParenthesis>>

RECURSIVE Concat(_)
Concat(ss) == IF ss = <<>> THEN <<>> ELSE Head(ss) \o Concat(Tail(ss))

RawInputs ==
    {[gen |-> "raw", lexemes |-> l] : l \in SeqsUpTo(Alphabet, MaxRaw)}

LambdaInputs ==
    {[gen |-> "lambda", params |-> ps, nonstrict |-> ns, trailing |-> tr,
      body |-> b,
      lexemes |-> ParameterText(ps, ns, tr) \o <<Letters(b)>>] :
        ps \in NonEmptySeqs(ParamNames, MaxLambdaParams),
        ns \in BOOLEAN, tr \in BOOLEAN, b \in BodyNames}

NestedInputs ==
    {[gen |-> "nested", outer |-> o, inner |-> i, body |-> b,
      lexemes |-> ParameterText(o, FALSE, FALSE)
                  \o ParameterText(i, FALSE, FALSE) \o <<Letters(b)>>] :
        o \in NonEmptySeqs(ParamNames, MaxNestedParams),
        i \in NonEmptySeqs(ParamNames, MaxNestedParams),
        b \in BodyNames}

\* An argument list holds consecutive integers, so that the order and the
\* list of every argument can be told: (1, 2), (3), (3, 4), (), ...
ArgumentLists ==
    {[args |-> [j \in 1 .. n |-> first + j - 1], trailing |-> tr] :
        first \in ChainArgs, n \in 0 .. MaxChainArgs, tr \in BOOLEAN}
    \ {[args |-> <<>>, trailing |-> TRUE]}

ChainInputs ==
    {[gen |-> "chain", head |-> h, lists |-> ls,
      lexemes |-> HeadText(h)
                  \o Concat([j \in DOMAIN ls |-> ArgumentText(ls[j])])] :
        h \in ChainHeads, ls \in NonEmptySeqs(ArgumentLists, MaxChain)}

Inputs == RawInputs \cup LambdaInputs \cup NestedInputs \cup ChainInputs

(***************************************************************************)
(* SpecParse: la-parse-demo reads a text and parses it with a new          *)
(* interner and the empty root scope.                                      *)
(***************************************************************************)
InitParse ==
    /\ cache = EMPTY
    /\ hist = [fromEmpty |-> TRUE, inserted |-> {}]
    /\ cop = [op |-> "new"]
    /\ heap = <<>>
    /\ symbols = {}
    /\ got = {}
    /\ input \in Inputs
    /\ result = [res |-> "Idle"]

ParseDemo ==
    /\ result.res = "Idle"
    /\ LET r == parse_term([heap |-> heap, symbols |-> symbols,
                            lex |-> input.lexemes],
                           Scope_new(None, <<>>)) IN
       /\ heap' = r.st.heap
       /\ symbols' = r.st.symbols
       /\ got' = got \cup {<<Symbol_name(r.st.heap, p), p>> : p \in r.st.symbols}
       /\ result' = IF r.res = "Ok"
                    THEN [res |-> "Ok", val |-> r.val, rest |-> r.st.lex]
                    ELSE [res |-> r.res, rest |-> r.st.lex]
    /\ UNCHANGED <<cacheVars, input>>

NextParse == ParseDemo

SpecParse == InitParse /\ [][NextParse]_vars

(***************************************************************************)
(* The parser: claims                                                      *)
(***************************************************************************)
\* The term at ptr as a tree: its kind and its children, as Term::view
\* shows them.
RECURSIVE Tree(_, _)
Tree(h, ptr) ==
    LET k == h[ptr].header.kind
        pl == h[ptr].payload IN
    CASE k = "Variable" -> [kind |-> k, de_bruijn |-> pl.de_bruijn]
      [] k = "Integer" -> [kind |-> k, value |-> pl.value]
      [] k = "String" -> [kind |-> k, bytes |-> pl.bytes]
      [] k = "Symbol" -> [kind |-> k, name |-> pl.name]
      [] k = "Application" ->
            [kind |-> k, function |-> Tree(h, pl.function),
             arguments |-> [j \in DOMAIN pl.arguments |->
                               Tree(h, pl.arguments[j])]]
      [] k = "Lambda" ->
            [kind |-> k,
             parameters |-> [j \in DOMAIN pl.parameters |->
                 [strictness |-> pl.parameters[j].strictness,
                  name |-> Symbol_name(h, pl.parameters[j].name)]],
             body |-> Tree(h, pl.body)]

Parsed == result.res # "Idle"

ParsedTree == Tree(heap, result.val)

VariableTree(i) == [kind |-> "Variable", de_bruijn |-> i]
IntegerTree(v) == [kind |-> "Integer", value |-> v]
SymbolTree(name) == [kind |-> "Symbol", name |-> name]
ApplicationTree(f, args) ==
    [kind |-> "Application", function |-> f, arguments |-> args]

\* The names of a parameter list are distinct.
Distinct(names) ==
    \A j \in DOMAIN names : \A k \in DOMAIN names :
        names[j] = names[k] => j = k

\* The body of the lambda the text says, where the text is a lambda whose
\* body is one identifier: the parsed term's body for `|ps| b`, the body of
\* the parsed term's body for `|os| |ps| b`.
LambdaCase ==
    /\ Parsed
    /\ input.gen \in {"lambda", "nested"}

CaseParams == IF input.gen = "lambda" THEN input.params ELSE input.inner

CaseLambda ==
    IF input.gen = "lambda" THEN ParsedTree ELSE ParsedTree.body

\* C7 (amended): when the parser parses a lambda with n parameters, an
\* identifier that is the lambda's body and names a parameter is parsed as
\* Variable(k), k the 0-indexed position, counted from the left, of the
\* last parameter of that name; `|x, y| x` has body Variable(0) and
\* `|x, y| y` has body Variable(1).
C7_ParameterIndex ==
    LambdaCase =>
        /\ result.res = "Ok"
        /\ CaseLambda.kind = "Lambda"
        /\ Len(CaseLambda.parameters) = Len(CaseParams)
        /\ \A k \in DOMAIN CaseParams :
              /\ CaseParams[k] = input.body
              /\ \A j \in DOMAIN CaseParams :
                    CaseParams[j] = input.body => j <= k
              => CaseLambda.body = VariableTree(k - 1)

\* `|x, y| x` was parsed and its body is Variable(0).
C7_Witness ==
    /\ Parsed
    /\ input.gen = "lambda"
    /\ input.params = <<"x", "y">>
    /\ input.body = "x"
    /\ result.res = "Ok"
    /\ ParsedTree.body = VariableTree(0)

\* C7 as stated: when the parser parses a lambda with n parameters, an
\* identifier in the body that names the k-th parameter (0-indexed,
\* leftmost = 0) is parsed as Variable(n - 1 - k).
C7_ReversedIndex ==
    LambdaCase /\ Distinct(CaseParams) =>
        /\ result.res = "Ok"
        /\ CaseLambda.kind = "Lambda"
        /\ \A k \in DOMAIN CaseParams :
              CaseParams[k] = input.body
              => CaseLambda.body = VariableTree(Len(CaseParams) - 1 - (k - 1))

\* The primary a chain of argument lists starts from.
HeadTree(head) ==
    CASE head = "symbol" -> SymbolTree("f")
      [] head = "integer" -> IntegerTree(7)
      [] head = "parenthesised" -> SymbolTree("f")
      [] head = "lambda" ->
            [kind |-> "Lambda",
             parameters |-> <<[strictness |-> "Strict", name |-> "x"]>>,
             body |-> VariableTree(0)]

\* Application(...Application(Application(p, L1), L2)..., Lm)
RECURSIVE LeftNested(_, _)
LeftNested(p, lists) ==
    IF lists = <<>> THEN p
    ELSE LeftNested(
            ApplicationTree(p, [j \in DOMAIN Head(lists).args |->
                                   IntegerTree(Head(lists).args[j])]),
            Tail(lists))

\* C8: argument lists chain left-associatively: a primary p followed by
\* m >= 1 argument lists L1..Lm parses to
\* Application(...Application(Application(p, L1), L2)..., Lm), each with its
\* arguments in written order.
C8_LeftAssociative ==
    Parsed /\ input.gen = "chain" =>
        /\ result.res = "Ok"
        /\ result.rest = <<>>
        /\ ParsedTree = LeftNested(HeadTree(input.head), input.lists)

\* `f(1, 2)(3)` was parsed to Application(Application(Symbol f, [1, 2]), [3]).
C8_Witness ==
    /\ Parsed
    /\ input.gen = "chain"
    /\ input.lexemes =
          <<Letters("f"), LeftParenthesis, Digits(<<1>>), Comma, Digits(<<2>>),
            RightParenthesis, LeftParenthesis, Digits(<<3>>), RightParenthesis>>
    /\ result.res = "Ok"
    /\ ParsedTree =
          ApplicationTree(
              ApplicationTree(SymbolTree("f"), <<IntegerTree(1), IntegerTree(2)>>),
              <<IntegerTree(3)>>)

(***************************************************************************)
(* The grammar of terms, as a recogniser: XEnds(s) is the set of texts     *)
(* that can remain when an X has been read from the front of s.            *)
(*   term     = primary { arg_list } ;                                     *)
(*   arg_list = "(" [ term { "," term } [ "," ] ] ")" ;                    *)
(*   primary  = "|" params "|" term | "(" term ")"                         *)
(*            | integer | string | identifier ;                            *)
(*   params   = [ param { "," param } [ "," ] ] ;                          *)
(*   param    = [ "~" ] identifier ;                                       *)
(***************************************************************************)
StartsWith(s, t) == s # <<>> /\ Head(s).t = t

\* A string of digits is an integer literal when it is at most i32::MAX.
RECURSIVE DigitsLeq(_, _)
DigitsLeq(a, b) ==
    IF a = <<>> THEN TRUE
    ELSE IF Head(a) # Head(b) THEN Head(a) < Head(b)
    ELSE DigitsLeq(Tail(a), Tail(b))

InI32(digits) ==
    \/ Len(digits) < Len(FitsI32)
    \/ Len(digits) = Len(FitsI32) /\ DigitsLeq(digits, FitsI32)

ParamEnds(s) ==
    LET after == IF StartsWith(s, "Tilde") THEN Tail(s) ELSE s IN
    IF StartsWith(after, "Letters") THEN {Tail(after)} ELSE {}

RECURSIVE TermEnds(_)
RECURSIVE PrimaryEnds(_)
RECURSIVE ItemsEnds(_, _, _)
RECURSIVE Chained(_)

ElementEnds(s, element) ==
    IF element = "param" THEN ParamEnds(s) ELSE TermEnds(s)

\* What may follow an element of a list: the terminator, or a comma and
\* then the terminator or more elements.
AfterElement(s, element, terminator) ==
    IF StartsWith(s, terminator) THEN {Tail(s)}
    ELSE IF StartsWith(s, "Comma")
    THEN IF StartsWith(Tail(s), terminator) THEN {Tail(Tail(s))}
         ELSE ItemsEnds(Tail(s), element, terminator)
    ELSE {}

ItemsEnds(s, element, terminator) ==
    UNION {AfterElement(r, element, terminator) : r \in ElementEnds(s, element)}

\* [ element { "," element } [ "," ] ] terminator
ListEnds(s, element, terminator) ==
    IF StartsWith(s, terminator) THEN {Tail(s)}
    ELSE ItemsEnds(s, element, terminator)

ArgListEnds(s) ==
    IF StartsWith(s, "LeftParenthesis")
    THEN ListEnds(Tail(s), "term", "RightParenthesis")
    ELSE {}

PrimaryEnds(s) ==
    IF s = <<>> THEN {}
    ELSE CASE Head(s).t = "Pipe" ->
                 UNION {TermEnds(r) : r \in ListEnds(Tail(s), "param", "Pipe")}
           [] Head(s).t = "LeftParenthesis" ->
                 {Tail(r) : r \in {q \in TermEnds(Tail(s)) :
                                      StartsWith(q, "RightParenthesis")}}
           [] Head(s).t = "Digits" ->
                 IF InI32(Head(s).digits) THEN {Tail(s)} ELSE {}
           [] Head(s).t \in {"Quoted", "Letters"} -> {Tail(s)}
           [] OTHER -> {}

Chained(ends) ==
    IF ends = {} THEN {}
    ELSE ends \cup Chained(UNION {ArgListEnds(r) : r \in ends})

TermEnds(s) == Chained(PrimaryEnds(s))

\* No term can be read from the front of the text: whatever term the text
\* starts with is followed by a "(" that opens no argument list.
Malformed(s) ==
    ~ \E r \in TermEnds(s) : ~StartsWith(r, "LeftParenthesis")

\* C9: for every malformed token sequence (unexpected token at a primary
\* position, missing `)`, missing `,` or terminator in a list,
\* non-identifier where a parameter is expected, integer literal outside
\* the i32 range, end of input inside a construct), parse_term returns
\* Err(Error) rather than panicking or returning a term.
C9_MalformedIsErr ==
    Parsed /\ Malformed(input.lexemes) => result.res = "Err"

\* C10: every Lambda term that exists after the parser has run has a
\* parameter slice of length >= 1.
C10_LambdaHasParameters ==
    \A ptr \in Pointers :
        KindOf(ptr) = "Lambda" => Len(heap[ptr].payload.parameters) >= 1

\* The parser returns a term for the texts of the grammar and for no others.
ParserFollowsGrammar ==
    Parsed => (result.res = "Ok" <=> ~Malformed(input.lexemes))

(***************************************************************************)
(* Terms and sessions given to the simplifier                              *)
(***************************************************************************)
IntT(v) == [k |-> "int", v |-> v]
VarT(i) == [k |-> "var", i |-> i]
SymT(n) == [k |-> "sym", n |-> n]
StrT(b) == [k |-> "str", b |-> b]
LamT(ps, body) == [k |-> "lam", ps |-> ps, body |-> body]
AppT(f, args) == [k |-> "app", f |-> f, args |-> args]

\* The term of a tree, built with the constructors and the interner:
\* children first, arguments from left to right.
RECURSIVE Build(_, _, _)
RECURSIVE BuildAll(_, _, _)

Allocated(t, syms) == [heap |-> t.heap, symbols |-> syms, ptr |-> t.ptr]

BuildLambda(g, ps, body) ==
    Allocated(Term_lambda(body.heap,
                          [pj \in DOMAIN ps |->
                              [strictness |-> "Strict", name |-> g.got[ps[pj]]]],
                          body.ptr),
              body.symbols)

BuildBody(g, ps, tree) == BuildLambda(g, ps, Build(g.heap, g.symbols, tree))

BuildApplication(f, args) ==
    Allocated(Term_application(args.heap, f.ptr, args.ptrs), args.symbols)

BuildArguments(f, trees) ==
    BuildApplication(
        f, BuildAll([heap |-> f.heap, symbols |-> f.symbols, ptrs |-> <<>>],
                    trees, 1))

BuildNext(b, t, trees, j) ==
    BuildAll([heap |-> t.heap, symbols |-> t.symbols,
              ptrs |-> Append(b.ptrs, t.ptr)], trees, j + 1)

BuildAll(b, trees, j) ==
    IF j > Len(trees) THEN b
    ELSE BuildNext(b, Build(b.heap, b.symbols, trees[j]), trees, j)

Build(h, syms, tree) ==
    CASE tree.k = "int" -> Allocated(Term_integer_i32(h, tree.v), syms)
      [] tree.k = "var" -> Allocated(Term_variable(h, tree.i), syms)
      [] tree.k = "str" -> Allocated(Term_string(h, tree.b), syms)
      [] tree.k = "sym" -> Symbols_get(h, syms, tree.n)
      [] tree.k = "lam" ->
            BuildBody(get_all([heap |-> h, symbols |-> syms, got |-> <<>>],
                              tree.ps),
                      tree.ps, tree.body)
      [] tree.k = "app" -> BuildArguments(Build(h, syms, tree.f), tree.args)

\* A session given as a sequence of definitions <<name, tree>>:
\* definitions.insert(symbols.get(name), term) for each.
RECURSIVE BuildSession(_, _, _)

BuildDefined(b, name, t, definitions, j) ==
    BuildSession(
        [heap |-> t.heap, symbols |-> t.symbols,
         session |-> [sd \in DOMAIN b.session \cup {name.ptr} |->
                         IF sd = name.ptr THEN t.ptr ELSE b.session[sd]]],
        definitions, j + 1)

BuildDefinition(b, name, definitions, j) ==
    BuildDefined(b, name, Build(name.heap, name.symbols, definitions[j][2]),
                 definitions, j)

BuildSession(b, definitions, j) ==
    IF j > Len(definitions) THEN b
    ELSE BuildDefinition(b, Symbols_get(b.heap, b.symbols, definitions[j][1]),
                         definitions, j)

\* Largest recursion_limit a simplification starts with.
MaxLimit == 3
\* The host sets the stop flag before the first entry to simplify, or
\* after at most this many entries, or never.
MaxStop == 2
\* Most operands of a generated application.
MaxOperands == 2

Add2(a, b) == AppT(SymT("Add"), <<a, b>>)

SimplifyAtoms ==
    {IntT(0), IntT(1), VarT(0), VarT(1), StrT("s"),
     SymT("Pi"), SymT("a"), SymT("b"), SymT("Sin"), SymT("Cos")}

SimplifyLambdas ==
    {LamT(<<"x">>, body) :
        body \in {VarT(0), VarT(1), SymT("Pi"), IntT(1), SymT("a"),
                  Add2(VarT(0), VarT(0)), Add2(VarT(0), SymT("Pi")),
                  Add2(SymT("Pi"), SymT("Pi")), AppT(SymT("Sin"), <<VarT(0)>>),
                  VarT(16), Add2(VarT(0), VarT(16)),
                  Add2(Add2(VarT(0), VarT(0)), AppT(SymT("Sin"), <<VarT(0)>>))}}
    \cup {LamT(<<"x", "y">>, VarT(0)), LamT(<<"x", "y">>, SymT("Pi"))}

SimplifyHeads ==
    {SymT("Cos"), SymT("Sin"), SymT("Derivative"), SymT("a"), SymT("b"),
     SymT("Tan"), IntT(1), LamT(<<"x">>, VarT(0))}

\* Applications of a head to one operand, and to none or several operands
\* drawn from a smaller set.
SimplifyApplications ==
    {AppT(f, <<t>>) : f \in SimplifyHeads, t \in SimplifyAtoms \cup SimplifyLambdas}
    \cup {AppT(f, ts) : f \in SimplifyHeads,
                       ts \in SeqsUpTo({IntT(0), SymT("a")}, MaxOperands)}

\* Applications of a builtin or a defined symbol to an application.
SimplifyNested ==
    {AppT(f, <<AppT(g, <<t>>)>>) :
        f \in {SymT("Cos"), SymT("Sin"), SymT("Derivative"), SymT("a")},
        g \in {SymT("Cos"), SymT("Sin"), SymT("Derivative"), SymT("a"), IntT(1)},
        t \in {IntT(0), SymT("Pi"), SymT("a"), SymT("Sin")}}

SimplifyTrees ==
    SimplifyAtoms \cup SimplifyLambdas \cup SimplifyApplications
    \cup SimplifyNested

\* Sessions: empty; Pi reserved and a defined as an undefined symbol; a
\* defined as an integer, as Pi, as a builtin, as a lambda; a and b defined
\* as each other; a defined as b and b as an integer.
Sessions ==
    {<<>>,
     <<<<"a", SymT("b")>>, <<"b", IntT(0)>>>>,
     <<<<"Pi", SymT("Pi")>>, <<"a", SymT("b")>>>>,
     <<<<"a", IntT(0)>>>>,
     <<<<"Pi", SymT("Pi")>>, <<"a", SymT("Pi")>>>>,
     <<<<"a", SymT("Cos")>>, <<"b", SymT("Sin")>>>>,
     <<<<"a", LamT(<<"x">>, VarT(0))>>>>,
     <<<<"a", SymT("b")>>, <<"b", SymT("a")>>>>}

(***************************************************************************)
(* SpecSimplify: an embedder sets up the interner, the constants and the   *)
(* builtins as librealgebra's main does, fills a session, builds a term    *)
(* and calls simplify on it.                                               *)
(***************************************************************************)
InitSimplify ==
    /\ cache = EMPTY
    /\ hist = [fromEmpty |-> TRUE, inserted |-> {}]
    /\ cop = [op |-> "new"]
    /\ heap = <<>>
    /\ symbols = {}
    /\ got = {}
    /\ input = [gen |-> "simplify"]
    /\ result = [res |-> "Idle"]

InternedNames(h, syms) == {<<Symbol_name(h, sy), sy>> : sy \in syms}

\* Symbols::new, Constants::new, Builtins::new
SetupDone(k) ==
    /\ heap' = clone_all(k.heap, <<k.constants.symbol["Derivative"],
                                  k.constants.symbol["Cos"],
                                  k.constants.symbol["Sin"]>>)
    /\ symbols' = k.symbols
    /\ got' = got \cup InternedNames(k.heap, k.symbols)
    /\ result' = [res |-> "Setup", constants |-> k.constants,
                  builtins |-> Builtins_new(k.constants)]

Setup ==
    /\ result.res = "Idle"
    /\ SetupDone(Constants_new(heap, symbols))
    /\ UNCHANGED <<cacheVars, input>>

\* Session::new and the definitions the embedder enters.
Defined(b, definitions) ==
    /\ heap' = b.heap
    /\ symbols' = b.symbols
    /\ got' = got \cup InternedNames(b.heap, b.symbols)
    /\ result' = [res |-> "Defined", constants |-> result.constants,
                  builtins |-> result.builtins, session |-> b.session]
    /\ input' = [gen |-> "simplify", definitions |-> definitions]

Define(definitions) ==
    /\ result.res = "Setup"
    /\ Defined(BuildSession([heap |-> heap, symbols |-> symbols,
                             session |-> <<>>], definitions, 1),
               definitions)
    /\ UNCHANGED cacheVars

\* The term the embedder builds (or parses).
TermBuilt(t, tree) ==
    /\ heap' = t.heap
    /\ symbols' = t.symbols
    /\ got' = got \cup InternedNames(t.heap, t.symbols)
    /\ result' = [res |-> "Ready", constants |-> result.constants,
                  builtins |-> result.builtins, session |-> result.session,
                  term |-> t.ptr]
    /\ input' = [gen |-> "simplify", definitions |-> input.definitions,
                 tree |-> tree]

BuildTerm(tree) ==
    /\ result.res = "Defined"
    /\ TermBuilt(Build(heap, symbols, tree), tree)
    /\ UNCHANGED cacheVars

\* The Context the embedder passes.
Context(recursion_limit, stop_after, unwritten) ==
    [heap |-> heap, symbols |-> symbols,
     recursion_limit |-> recursion_limit,
     stop_after |-> stop_after, entered |-> 0,
     unwritten |-> unwritten,
     session |-> result.session, constants |-> result.constants,
     builtins |-> result.builtins, warnings |-> <<>>, log |-> <<>>]

Simplified(r) ==
    /\ heap' = r.c.heap
    /\ symbols' = r.c.symbols
    /\ result' = [res |-> r.res,
                  val |-> IF r.res = "Ok" THEN r.val ELSE 0,
                  term |-> result.term, constants |-> result.constants,
                  builtins |-> result.builtins, session |-> result.session,
                  recursion_limit |-> r.c.recursion_limit,
                  warnings |-> r.c.warnings, log |-> r.c.log,
                  again |-> [res |-> "Idle"]]

Simplify(recursion_limit, stop_after, unwritten) ==
    /\ result.res = "Ready"
    /\ Simplified(simplify(Context(recursion_limit, stop_after, unwritten),
                           result.term))
    /\ input' = [gen |-> "simplify", definitions |-> input.definitions,
                 tree |-> input.tree, recursion_limit |-> recursion_limit,
                 stop_after |-> stop_after, unwritten |-> unwritten]
    /\ UNCHANGED <<cacheVars, got>>

\* The embedder simplifies the term it got, in the same context.
SimplifiedAgain(r) ==
    /\ heap' = r.c.heap
    /\ symbols' = r.c.symbols
    /\ result' = [result EXCEPT !.again = [res |-> r.res,
                                          val |-> IF r.res = "Ok" THEN r.val ELSE 0,
                                          log |-> r.c.log]]

SimplifyAgain ==
    /\ result.res = "Ok"
    /\ "log" \in DOMAIN result
    /\ result.again.res = "Idle"
    /\ input.stop_after = NoStop
    /\ SimplifiedAgain(simplify(Context(input.recursion_limit, NoStop,
                                        input.unwritten),
                                result.val))
    /\ UNCHANGED <<cacheVars, got, input>>

NextSimplify ==
    \/ Setup
    \/ \E definitions \in Sessions : Define(definitions)
    \/ \E tree \in SimplifyTrees : BuildTerm(tree)
    \/ \E recursion_limit \in 0 .. MaxLimit :
          \E stop_after \in (0 .. MaxStop) \cup {NoStop} :
             \E unwritten \in Unwritten :
                Simplify(recursion_limit, stop_after, unwritten)
    \/ SimplifyAgain

SpecSimplify == InitSimplify /\ [][NextSimplify]_vars

(***************************************************************************)
(* Properties of the simplifier, read off the events of a finished run     *)
(***************************************************************************)
Ran == "log" \in DOMAIN result

\* The finished calls of fn, in the order they finished.
Events(fn) ==
    {result.log[n] : n \in {m \in DOMAIN result.log : result.log[m].fn = fn}}

EventKind(e) == heap[e.term].header.kind

\* C11: simplify of a Variable, an Integer or a Lambda t returns the handle
\* t itself: every such call that returns returns t, and every such call
\* returns unless it raises the cancellation (flag set, budget nonzero).
C11_AtomsFixed ==
    Ran => \A e \in Events("simplify") :
              EventKind(e) \in {"Variable", "Integer", "Lambda"} =>
                 /\ e.res = "Ok" => e.val = e.term
                 /\ (~e.stop \/ e.before = 0) => e.res = "Ok"

\* A lambda simplified in a nested call with budget left.
C11_Witness ==
    /\ Ran
    /\ \E e \in Events("simplify") :
          /\ EventKind(e) = "Lambda"
          /\ e.res = "Ok"
          /\ e.before > 0
          /\ e.before < input.recursion_limit

\* C12: a simplify entered with recursion_limit zero returns its input
\* term itself and gives the warner a recursion-limit warning.
C12_LimitWarns ==
    Ran => \A e \in Events("simplify") :
              e.before = 0 =>
                 /\ e.res = "Ok"
                 /\ e.val = e.term
                 /\ result.warnings # <<>>

\* recurse at log position n, and the simplify it called.
Inner(n) == result.log[n - 1]

\* C13: recurse runs simplify with recursion_limit one less, and when a
\* call of recurse or simplify has finished, by return or by unwinding,
\* recursion_limit is what it was when the call was entered.
C13_LimitRestored ==
    Ran => /\ result.recursion_limit = input.recursion_limit
           /\ \A n \in DOMAIN result.log :
                 /\ result.log[n].fn \in {"recurse", "simplify"} =>
                       result.log[n].after = result.log[n].before
                 /\ result.log[n].fn = "recurse" =>
                       /\ n > 1
                       /\ Inner(n).fn = "simplify"
                       /\ Inner(n).term = result.log[n].term
                       /\ Inner(n).before = result.log[n].before - 1
                       /\ Inner(n).res = result.log[n].res

\* A run in which one recurse returned and a later one was unwound by the
\* cancellation.
C13_Witness ==
    /\ Ran
    /\ \E e \in Events("recurse") : e.res = "Ok"
    /\ \E e \in Events("recurse") : e.res = "StopRequested" /\ e.before > 1

\* The calls that finished after the call at log position n.
Later(n) == {m \in DOMAIN result.log : m > n}

\* C14: a simplify entered while the stop flag is set and the recursion
\* budget is not zero, whatever the kind of its term, raises the
\* cancellation; so does every call that encloses it, and so does the
\* top-level call.  A simplify entered with the budget zero returns its
\* term and does not consult the flag.
C14_StopUnwinds ==
    Ran => \A n \in DOMAIN result.log :
              (result.log[n].fn = "simplify" /\ result.log[n].stop) =>
                 IF result.log[n].before = 0
                 THEN /\ result.log[n].res = "Ok"
                      /\ result.log[n].val = result.log[n].term
                 ELSE /\ result.log[n].res = "StopRequested"
                      /\ \A m \in Later(n) :
                            result.log[m].res = "StopRequested"
                      /\ result.res = "StopRequested"

\* The flag is set while a nested simplify is entered with budget left, and
\* the cancellation unwinds a call of recurse and a handler.
C14_Witness ==
    /\ Ran
    /\ result.res = "StopRequested"
    /\ \E n \in DOMAIN result.log :
          /\ result.log[n].fn = "simplify"
          /\ result.log[n].stop
          /\ result.log[n].before > 0
          /\ \E m \in Later(n) : result.log[m].fn = "recurse"
          /\ \E m \in Later(n) : result.log[m].fn \in {"Cos", "Sin", "Derivative"}

\* C14 as stated: for any value of the recursion budget, no term is
\* returned from a simplify entered with the flag set.
C14_StopAnyBudget ==
    Ran => \A e \in Events("simplify") :
              e.stop => (e.res = "StopRequested" /\ result.res = "StopRequested")

\* C15: when the stop flag is never set, simplify returns a term for every
\* input and does not panic, also for an application whose simplified
\* head is not a Symbol.
C15_NeverPanics ==
    (Ran /\ input.stop_after = NoStop) => result.res = "Ok"

\* The first call of fn made by the call that finished at log position n
\* (0: none): both were entered with the same log.
FirstCall(n, fn) ==
    IF \E m \in 1 .. n - 1 : /\ result.log[m].fn = fn
                             /\ result.log[m].from = result.log[n].from
    THEN CHOOSE m \in 1 .. n - 1 : /\ result.log[m].fn = fn
                                   /\ result.log[m].from = result.log[n].from
    ELSE 0

\* simplify of an application at log position n went on to simplify the
\* head, which became a Symbol without handler.
HeadWithoutHandler(n) ==
    /\ result.log[n].fn = "simplify"
    /\ EventKind(result.log[n]) = "Application"
    /\ FirstCall(n, "recurse") # 0
    /\ result.log[FirstCall(n, "recurse")].res = "Ok"
    /\ heap[result.log[FirstCall(n, "recurse")].val].header.kind = "Symbol"
    /\ result.log[FirstCall(n, "recurse")].val \notin DOMAIN result.builtins

\* C16: an application whose simplified head f' is a Symbol without
\* handler simplifies to itself when f' is the head f, and to the
\* application of f' to the same arguments when f' is another term.
C16_HeadReplaced ==
    Ran => \A n \in DOMAIN result.log :
              HeadWithoutHandler(n) =>
                 /\ result.log[n].res = "Ok"
                 /\ IF ptr_eq(result.log[FirstCall(n, "recurse")].val,
                              heap[result.log[n].term].payload.function)
                    THEN ptr_eq(result.log[n].val, result.log[n].term)
                    ELSE /\ heap[result.log[n].val].header.kind = "Application"
                         /\ heap[result.log[n].val].payload.function
                               = result.log[FirstCall(n, "recurse")].val
                         /\ heap[result.log[n].val].payload.arguments
                               = heap[result.log[n].term].payload.arguments

\* A Symbol simplified with budget left and the flag not set.
SymbolSimplified(n) ==
    /\ result.log[n].fn = "simplify"
    /\ EventKind(result.log[n]) = "Symbol"
    /\ result.log[n].before > 0
    /\ ~result.log[n].stop

\* The definition of the symbol simplified at log position n.
Definition(n) == result.session[result.log[n].term]

\* C17: a Symbol s simplified with positive budget gives s when s has no
\* definition; gives s, with no further entry to simplify, when its
\* definition is s itself; and otherwise gives what simplify gives for the
\* defining term with the budget one less.
C17_SymbolDefinition ==
    Ran => \A n \in DOMAIN result.log :
              SymbolSimplified(n) =>
                 IF \/ result.log[n].term \notin DOMAIN result.session
                    \/ Definition(n) = result.log[n].term
                 THEN /\ result.log[n].res = "Ok"
                      /\ result.log[n].val = result.log[n].term
                      /\ result.log[n].entries = 1
                      /\ FirstCall(n, "recurse") = 0
                 ELSE /\ n > 2
                      /\ result.log[n - 1].fn = "recurse"
                      /\ result.log[n - 1].from = result.log[n].from
                      /\ result.log[n - 1].before = result.log[n].before
                      /\ result.log[n - 2].fn = "simplify"
                      /\ result.log[n - 2].term = Definition(n)
                      /\ result.log[n - 2].before = result.log[n].before - 1
                      /\ result.log[n].res = result.log[n - 2].res
                      /\ result.log[n].val = result.log[n - 2].val

\* One run simplifies a reserved symbol and a symbol defined as another
\* term, both inside a nested call.
C17_Witness ==
    /\ Ran
    /\ \E n \in DOMAIN result.log :
          /\ SymbolSimplified(n)
          /\ result.log[n].term \in DOMAIN result.session
          /\ Definition(n) = result.log[n].term
          /\ result.log[n].before < input.recursion_limit
    /\ \E n \in DOMAIN result.log :
          /\ SymbolSimplified(n)
          /\ result.log[n].term \in DOMAIN result.session
          /\ Definition(n) # result.log[n].term
          /\ result.log[n].res = "Ok"

\* A handler fn finished at log position n, applied to exactly one operand,
\* which it simplified last before answering.
HandlerCalled(n, fn) ==
    /\ result.log[n].fn = fn
    /\ result.log[n].term # 0
    /\ n > 1
    /\ result.log[n - 1].fn = "recurse"
    /\ result.log[n - 1].term = result.log[n].term

\* The simplified operand of the handler at log position n.
Operand(n) == result.log[n - 1].val

\* val is an application of the constant symbol name to the one operand s.
IsApply(val, name, s) ==
    /\ val # 0
    /\ heap[val].header.kind = "Application"
    /\ heap[val].payload.function = result.constants.symbol[name]
    /\ heap[val].payload.arguments = <<s>>

\* The simplify of the application that dispatched to the handler at log
\* position n: the next call to finish.
Dispatcher(n) == result.log[n + 1]

\* A run of simplify on tree with budget left and the flag never set.
Ran_on(tree) ==
    /\ Ran
    /\ input.tree = tree
    /\ input.recursion_limit >= 1
    /\ input.stop_after = NoStop

\* C18: Cos applied to one operand a, s being the simplified a, answers
\* integer_1 when s is the integer 0, else integer_neg_1 when s is the
\* symbol Pi, else None (the application stays the original) when s is a
\* itself, else the application Cos(s); Cos(0) simplifies to 1 and Cos(Pi)
\* to -1.
C18_Cos ==
    Ran =>
       /\ \A n \in DOMAIN result.log :
             (HandlerCalled(n, "Cos") /\ result.log[n - 1].res = "Ok") =>
                /\ result.log[n].res = "Ok"
                /\ Dispatcher(n).fn = "simplify"
                /\ Dispatcher(n).res = "Ok"
                /\ IF eq_integer_i32(heap, Operand(n), 0)
                   THEN /\ result.log[n].val = result.constants.integer_1
                        /\ Dispatcher(n).val = result.constants.integer_1
                   ELSE IF eq_symbol(Operand(n), result.constants.symbol["Pi"])
                   THEN /\ result.log[n].val = result.constants.integer_neg_1
                        /\ Dispatcher(n).val = result.constants.integer_neg_1
                   ELSE IF ptr_eq(Operand(n), result.log[n].term)
                   THEN /\ result.log[n].val = 0
                        /\ Dispatcher(n).val = Dispatcher(n).term
                   ELSE /\ IsApply(result.log[n].val, "Cos", Operand(n))
                        /\ Dispatcher(n).val = result.log[n].val
                        /\ Dispatcher(n).val # Dispatcher(n).term
       /\ Ran_on(AppT(SymT("Cos"), <<IntT(0)>>)) =>
             (result.res = "Ok" /\ eq_integer_i32(heap, result.val, 1))
       /\ Ran_on(AppT(SymT("Cos"), <<SymT("Pi")>>)) =>
             (result.res = "Ok" /\ eq_integer_i32(heap, result.val, -1))

\* Cos(Cos(0)): the inner Cos answers integer_1, the outer one Cos(1).
C18_Witness ==
    /\ Ran
    /\ \E n \in DOMAIN result.log :
          /\ HandlerCalled(n, "Cos")
          /\ result.log[n - 1].res = "Ok"
          /\ eq_integer_i32(heap, Operand(n), 0)
          /\ result.log[n].val = result.constants.integer_1
    /\ \E n \in DOMAIN result.log :
          /\ HandlerCalled(n, "Cos")
          /\ IsApply(result.log[n].val, "Cos", result.constants.integer_1)

\* C19: Sin applied to one operand a, s being the simplified a, answers
\* integer_0 when s is the integer 0 or the symbol Pi, else None when s is
\* a itself, else the application Sin(s); Sin(0) and Sin(Pi) simplify to 0.
C19_Sin ==
    Ran =>
       /\ \A n \in DOMAIN result.log :
             (HandlerCalled(n, "Sin") /\ result.log[n - 1].res = "Ok") =>
                /\ result.log[n].res = "Ok"
                /\ Dispatcher(n).fn = "simplify"
                /\ Dispatcher(n).res = "Ok"
                /\ IF \/ eq_integer_i32(heap, Operand(n), 0)
                      \/ eq_symbol(Operand(n), result.constants.symbol["Pi"])
                   THEN /\ result.log[n].val = result.constants.integer_0
                        /\ Dispatcher(n).val = result.constants.integer_0
                   ELSE IF ptr_eq(Operand(n), result.log[n].term)
                   THEN /\ result.log[n].val = 0
                        /\ Dispatcher(n).val = Dispatcher(n).term
                   ELSE /\ IsApply(result.log[n].val, "Sin", Operand(n))
                        /\ Dispatcher(n).val = result.log[n].val
                        /\ Dispatcher(n).val # Dispatcher(n).term
       /\ Ran_on(AppT(SymT("Sin"), <<IntT(0)>>)) =>
             (result.res = "Ok" /\ eq_integer_i32(heap, result.val, 0))
       /\ Ran_on(AppT(SymT("Sin"), <<SymT("Pi")>>)) =>
             (result.res = "Ok" /\ eq_integer_i32(heap, result.val, 0))

\* Sin(Pi) answers integer_0, and elsewhere Sin rebuilds an application
\* whose operand changed.
C19_Witness ==
    /\ Ran
    /\ \E n \in DOMAIN result.log :
          /\ HandlerCalled(n, "Sin")
          /\ result.log[n - 1].res = "Ok"
          /\ eq_symbol(Operand(n), result.constants.symbol["Pi"])
          /\ result.log[n].val = result.constants.integer_0
          /\ \/ Ran_on(AppT(SymT("Sin"), <<SymT("Pi")>>))
             \/ \E m \in DOMAIN result.log :
                   /\ HandlerCalled(m, "Sin")
                   /\ IsApply(result.log[m].val, "Sin", Operand(m))

\* Derivative finished at log position n, applied to exactly one argument,
\* whose simplification returned.
DerivativeCalled(n) ==
    /\ result.log[n].fn = "Derivative"
    /\ result.log[n].term # 0
    /\ FirstCall(n, "recurse") # 0
    /\ result.log[FirstCall(n, "recurse")].term = result.log[n].term
    /\ result.log[FirstCall(n, "recurse")].res = "Ok"

\* The simplified argument g of the Derivative at log position n, the call
\* of of_function that followed, and of_function's call of of_term.
Function(n) == result.log[FirstCall(n, "recurse")].val
OfFunction(n) == result.log[n - 1]
OfTerm(n) == result.log[n - 2]

OneParameterLambda(g) ==
    /\ heap[g].header.kind = "Lambda"
    /\ Len(heap[g].payload.parameters) = 1

\* val is a lambda with the parameters of g and the given body.
IsLambdaOver(val, g, body) ==
    /\ val # 0
    /\ heap[val].header.kind = "Lambda"
    /\ heap[val].payload.parameters = heap[g].payload.parameters
    /\ heap[val].payload.body = body

\* The result of a run is a one-parameter lambda whose body is the integer v.
ResultLambdaOf(v) ==
    /\ result.res = "Ok"
    /\ OneParameterLambda(result.val)
    /\ eq_integer_i32(heap, heap[result.val].payload.body, v)

\* C20: Derivative applied to one argument f, g being the simplified f,
\* answers the symbol Cos when g is the symbol Sin; lambda_neg_Sin when g is
\* the symbol Cos; the lambda of g's parameters over the derivative of g's
\* body with respect to variable 0 when g is a one-parameter lambda and that
\* derivative is found; and otherwise, also for every lambda of several
\* parameters, None when g is f itself and Derivative(g) when it is not.
\* Derivative(|x| x) gives a lambda with body 1, Derivative(|x| Pi) one with
\* body 0.
C20_Derivative ==
    Ran =>
       /\ \A n \in DOMAIN result.log :
             DerivativeCalled(n) =>
                /\ OfFunction(n).fn = "of_function"
                /\ OfFunction(n).term = Function(n)
                /\ result.log[n].res = OfFunction(n).res
                /\ OneParameterLambda(Function(n)) =>
                      /\ OfTerm(n).fn = "of_term"
                      /\ OfTerm(n).term = heap[Function(n)].payload.body
                      /\ OfFunction(n).res = OfTerm(n).res
                /\ OfFunction(n).res = "Ok" =>
                      IF eq_symbol(Function(n), result.constants.symbol["Sin"])
                      THEN result.log[n].val = result.constants.symbol["Cos"]
                      ELSE IF eq_symbol(Function(n),
                                        result.constants.symbol["Cos"])
                      THEN result.log[n].val = result.constants.lambda_neg_Sin
                      ELSE IF /\ OneParameterLambda(Function(n))
                              /\ OfTerm(n).val # 0
                      THEN IsLambdaOver(result.log[n].val, Function(n),
                                        OfTerm(n).val)
                      ELSE IF ptr_eq(Function(n), result.log[n].term)
                      THEN result.log[n].val = 0
                      ELSE IsApply(result.log[n].val, "Derivative", Function(n))
       /\ Ran_on(AppT(SymT("Derivative"), <<LamT(<<"x">>, VarT(0))>>)) =>
             ResultLambdaOf(1)
       /\ Ran_on(AppT(SymT("Derivative"), <<LamT(<<"x">>, SymT("Pi"))>>)) =>
             ResultLambdaOf(0)

\* Derivative(|x| x) has given a new lambda with body 1.
C20_Witness ==
    /\ Ran_on(AppT(SymT("Derivative"), <<LamT(<<"x">>, VarT(0))>>))
    /\ ResultLambdaOf(1)
    /\ result.val # result.term
    /\ \E n \in DOMAIN result.log :
          /\ DerivativeCalled(n)
          /\ IsLambdaOver(result.log[n].val, Function(n),
                          result.constants.integer_1)

\* The term was simplified a second time.
RanAgain == Ran /\ result.again.res # "Idle"

\* The budget sufficed: no call of simplify, in the first run or in the
\* second, was entered with recursion_limit zero.
NeverExhausted ==
    /\ \A n \in DOMAIN result.log : result.log[n].before > 0
    /\ \A n \in DOMAIN result.again.log : result.again.log[n].before > 0

RECURSIVE Height(_)
RECURSIVE MaxHeight(_)
MaxHeight(trees) ==
    IF trees = <<>> THEN 0
    ELSE IF Height(Head(trees)) >= MaxHeight(Tail(trees))
    THEN Height(Head(trees)) ELSE MaxHeight(Tail(trees))

\* The number of levels of a tree.
Height(tree) ==
    CASE tree.k = "lam" -> 1 + Height(tree.body)
      [] tree.k = "app" -> 1 + MaxHeight(<<tree.f>> \o tree.args)
      [] OTHER -> 1

\* A budget that covers every level of the term and every definition of
\* the session.
LargeBudget ==
    input.recursion_limit >= Height(input.tree) + Len(input.definitions)

\* The second run returned a term structurally equal to the first one's.
SameAgain ==
    /\ result.again.res = "Ok"
    /\ Tree(heap, result.again.val) = Tree(heap, result.val)

Enclosing(n) ==
    {m \in Later(n) : result.log[m].fn = "recurse" /\ result.log[m].from < n}

Depth(n) == Cardinality(Enclosing(n))

RECURSIVE Nodes(_)
RECURSIVE NodesAll(_)
NodesAll(trees) ==
    IF trees = <<>> THEN 0 ELSE Nodes(Head(trees)) + NodesAll(Tail(trees))

\* The number of nodes of a tree.
Nodes(tree) ==
    CASE tree.k = "lam" -> 1 + Nodes(tree.body)
      [] tree.k = "app" -> 1 + NodesAll(<<tree.f>> \o tree.args)
      [] OTHER -> 1

\* C22: simplify finishes for every term, every recursion_limit and every
\* session, cyclic ones included: the call has an outcome, the calls of
\* recurse are never nested deeper than the initial recursion_limit, every
\* call runs with the budget reduced by its depth, and the entries to
\* simplify number at most the nodes of the term plus the initial
\* recursion_limit plus one.
C22_Bounded ==
    Ran =>
          /\ result.res \in {"Ok", "StopRequested", "Todo"}
          /\ \A n \in DOMAIN result.log :
                /\ Depth(n) <= input.recursion_limit
                /\ result.log[n].fn = "simplify" =>
                      result.log[n].before = input.recursion_limit - Depth(n)
          /\ result.log[Len(result.log)].entries
                <= Nodes(input.tree) + input.recursion_limit + 1

\* A cyclic session: a is defined as b and b as a, and the calls of recurse
\* were nested as deep as the initial recursion_limit allows.
C22_Witness ==
    /\ Ran
    /\ input.definitions = <<<<"a", SymT("b")>>, <<"b", SymT("a")>>>>
    /\ input.recursion_limit = MaxLimit
    /\ result.res = "Ok"
    /\ \E n \in DOMAIN result.log : Depth(n) = input.recursion_limit

(***************************************************************************)
(* SpecHandles: an embedder creates terms, clones handles and drops them.  *)
(* got holds the live handles: <<k, ptr>> is the k-th live handle of ptr.   *)
(***************************************************************************)
InitHandles ==
    /\ cache = EMPTY
    /\ hist = [fromEmpty |-> TRUE, inserted |-> {}]
    /\ cop = [op |-> "new"]
    /\ heap = <<>>
    /\ symbols = {}
    /\ got = {}
    /\ input = <<>>
    /\ result = [res |-> "Idle"]

\* The number of live handles of ptr.
Live(ptr) == Cardinality({g \in got : g[2] = ptr})

\* let t = Term::integer_i32(value);
HandleNew(value) ==
    /\ Len(heap) < MaxHeap
    /\ heap' = Term_integer_i32(heap, value).heap
    /\ got' = got \cup {<<1, Term_integer_i32(heap, value).ptr>>}
    /\ UNCHANGED <<symbols, cacheVars, parseVars>>

\* let u = t.clone();
HandleClone(ptr) ==
    /\ Live(ptr) >= 1
    /\ heap[ptr].header.ref_count < MaxRefs
    /\ ~IsU32Max(heap[ptr].header.ref_count)
    /\ heap' = Term_clone(heap, ptr)
    /\ got' = got \cup {<<Live(ptr) + 1, ptr>>}
    /\ UNCHANGED <<symbols, cacheVars, parseVars>>

\* drop(t);
HandleDrop(ptr) ==
    /\ Live(ptr) >= 1
    /\ heap' = Term_drop(heap, ptr)
    /\ got' = got \ {<<Live(ptr), ptr>>}
    /\ UNCHANGED <<symbols, cacheVars, parseVars>>

NextHandles ==
    \/ \E value \in IntValues : HandleNew(value)
    \/ \E ptr \in DOMAIN heap : HandleClone(ptr)
    \/ \E ptr \in DOMAIN heap : HandleDrop(ptr)

SpecHandles == InitHandles /\ [][NextHandles]_vars

\* C23: after any sequence of clones and drops the reference count of a
\* term is the number of its live handles, and a term whose last handle
\* was dropped is no longer allocated.
C23_RefCountTracksHandles ==
    \A ptr \in DOMAIN heap :
       /\ heap[ptr].header.ref_count = Live(ptr)
       /\ Live(ptr) >= 1

(***************************************************************************)
(* Scopes of nested lambdas                                                *)
(***************************************************************************)
NestedCase == Parsed /\ input.gen = "nested"

Binds(names, name) == \E j \in DOMAIN names : names[j] = name

\* The size of the frame Scope::new makes of names.
FrameSize(names) == Cardinality({names[j] : j \in DOMAIN names})

\* The scope in which the body of `|outer| |inner| body` is parsed.
InnerScope ==
    Scope_new(Some(Scope_new(Some(Scope_new(None, <<>>)), input.outer)),
              input.inner)

\* C24: Scope::get gives, for a name found in frame F, its position in F
\* plus the sizes of the frames inner to F, the innermost binding frame
\* winning, and None when no frame binds the name.
C24_ScopeChainIndex ==
    NestedCase =>
       /\ Scope_get(InnerScope, input.body) =
             IF Binds(input.inner, input.body)
             THEN Some(LastIndex(input.inner, input.body) - 1)
             ELSE IF Binds(input.outer, input.body)
             THEN Some(LastIndex(input.outer, input.body) - 1
                       + FrameSize(input.inner))
             ELSE None
       /\ result.res = "Ok"
       /\ Scope_get(InnerScope, input.body) # None =>
             ParsedTree.body.body
                = VariableTree(Scope_get(InnerScope, input.body).val)
       /\ Scope_get(InnerScope, input.body) = None =>
             ParsedTree.body.body = SymbolTree(input.body)

\* The names visible in the body of the nested lambdas.
Visible == {input.outer[j] : j \in DOMAIN input.outer}
           \cup {input.inner[j] : j \in DOMAIN input.inner}

\* C30: parsing from the empty root scope, a Variable(i) has i smaller than
\* the number of parameters of the lambdas around it, and two distinct
\* names visible at one point never get the same index.
C30_ClosedTerms ==
    /\ (Parsed /\ input.gen = "lambda" /\ result.res = "Ok"
          /\ ParsedTree.body.kind = "Variable") =>
             ParsedTree.body.de_bruijn < Len(input.params)
    /\ (NestedCase /\ result.res = "Ok") =>
          /\ ParsedTree.body.body.kind = "Variable" =>
                ParsedTree.body.body.de_bruijn
                   < Len(input.outer) + Len(input.inner)
          /\ \A n1 \in Visible : \A n2 \in Visible \ {n1} :
                Scope_get(InnerScope, n1) # Scope_get(InnerScope, n2)

(***************************************************************************)
(* The derivative of a term (builtins/Derivative.rs)                       *)
(***************************************************************************)
\* of_term finished at log position n; its parameter is DeBruijn(0) in
\* every call the Derivative handler makes.
OfTermCalled(n) == result.log[n].fn = "of_term"

\* What the cache of the term t answers to contains(DeBruijn(0)), as the
\* run read it.
CacheContains0(t) ==
    contains(IF "de_bruijn_cache" \in DOMAIN heap[t].header
             THEN heap[t].header.de_bruijn_cache
             ELSE input.unwritten, 0)

IsAdd(t) ==
    /\ heap[t].header.kind = "Application"
    /\ eq_symbol(heap[t].payload.function, result.constants.symbol["Add"])

\* C25: of_term with parameter p answers integer_0 when the term's cache
\* answers contains(p) = Some(false); else integer_1 when the term is
\* Variable(p); else applies the sum rule when the term is an application
\* of Add; and answers None for every other term, also when its cache is
\* UNKNOWN.
C25_TermDerivative ==
    Ran => \A n \in DOMAIN result.log :
              OfTermCalled(n) =>
                 IF CacheContains0(result.log[n].term) = Some(FALSE)
                 THEN /\ result.log[n].res = "Ok"
                      /\ result.log[n].val = result.constants.integer_0
                 ELSE IF eq_variable(heap, result.log[n].term, 0)
                 THEN /\ result.log[n].res = "Ok"
                      /\ result.log[n].val = result.constants.integer_1
                 ELSE IF IsAdd(result.log[n].term)
                 THEN TRUE
                 ELSE /\ result.log[n].res = "Ok"
                      /\ result.log[n].val = 0
                      /\ result.log[n].entries = 0

\* The run that differentiates |x| x + Pi: x gives integer_1 and the sum
\* rule is applied to the body.
C25_Witness ==
    /\ Ran
    /\ \E n \in DOMAIN result.log :
          /\ OfTermCalled(n)
          /\ eq_variable(heap, result.log[n].term, 0)
          /\ result.log[n].val = result.constants.integer_1
    /\ \E n \in DOMAIN result.log :
          /\ OfTermCalled(n)
          /\ IsAdd(result.log[n].term)
          /\ result.log[n].val # 0
    /\ input.tree = AppT(SymT("Derivative"),
                         <<LamT(<<"x">>, Add2(VarT(0), SymT("Pi")))>>)

\* The operands of the sum t that the cache does not report constant in
\* DeBruijn(0).
NotConstant(t) ==
    {i \in DOMAIN heap[t].payload.arguments :
        CacheContains0(heap[t].payload.arguments[i]) # Some(FALSE)}

\* The calls of of_term that finished inside the call at log position n.
Differentiated(n, t) ==
    {m \in result.log[n].from + 1 .. n - 1 :
        /\ result.log[m].fn = "of_term"
        /\ result.log[m].term = t}

\* C26: the sum rule drops only the operands reported constant and
\* differentiates every other operand, one whose cache is UNKNOWN included:
\* when it answers Some, each of them has a derivative; when it answers
\* None, one of them has none; and the sum of no derivative is integer_0.
C26_SumRule ==
    Ran => \A n \in DOMAIN result.log :
              (/\ OfTermCalled(n)
               /\ result.log[n].res = "Ok"
               /\ CacheContains0(result.log[n].term) # Some(FALSE)
               /\ IsAdd(result.log[n].term)) =>
                 /\ result.log[n].val # 0 =>
                       \A i \in NotConstant(result.log[n].term) :
                          \E m \in Differentiated(n,
                                     heap[result.log[n].term].payload.arguments[i]) :
                             result.log[m].val # 0
                 /\ result.log[n].val = 0 =>
                       \E i \in NotConstant(result.log[n].term) :
                          \E m \in Differentiated(n,
                                     heap[result.log[n].term].payload.arguments[i]) :
                             result.log[m].val = 0
                 /\ NotConstant(result.log[n].term) = {} =>
                       result.log[n].val = result.constants.integer_0

(***************************************************************************)
(* Handlers applied to a wrong number of arguments                         *)
(***************************************************************************)
\* The handler that finished at log position n was given a number of
\* arguments other than one.
WrongArity(n) ==
    /\ result.log[n].fn \in {"Cos", "Sin", "Derivative"}
    /\ result.log[n].term = 0

\* C27: a handler of Cos, Sin or Derivative given a number of arguments
\* other than one emits an arity warning and answers None without
\* simplifying any argument.
C27_ArityWarns ==
    Ran => \A n \in DOMAIN result.log :
              WrongArity(n) =>
                 /\ result.log[n].res = "Ok"
                 /\ result.log[n].val = 0
                 /\ result.log[n].entries = 0
                 /\ result.log[n].from = n - 1
                 /\ result.warnings # <<>>

(***************************************************************************)
(* Sharing                                                                 *)
(***************************************************************************)
\* simplify of an application finished at log position n with a result,
\* having simplified the head f to f itself.
HeadUnchanged(n) ==
    /\ result.log[n].fn = "simplify"
    /\ EventKind(result.log[n]) = "Application"
    /\ result.log[n].res = "Ok"
    /\ FirstCall(n, "recurse") # 0
    /\ result.log[FirstCall(n, "recurse")].val =
          heap[result.log[n].term].payload.function

\* The handler, if one was called for the application at log position n,
\* finished at n - 1.
Handled(n) ==
    /\ n > 1
    /\ result.log[n - 1].fn \in {"Cos", "Sin", "Derivative"}
    /\ result.log[n - 1].from > result.log[n].from

\* The handler before log position n simplified its operand to the operand
\* itself and none of its rules applied to it: the operand of Cos or Sin is
\* neither 0 nor Pi; of_function has no derivative of the operand of
\* Derivative and the sum rule has produced no sum on the way.  A handler
\* given a wrong number of arguments simplifies nothing.
HandlerUnchanged(n) ==
    \/ result.log[n - 1].term = 0
    \/ /\ FirstCall(n - 1, "recurse") # 0
       /\ result.log[FirstCall(n - 1, "recurse")].val = result.log[n - 1].term
       /\ IF result.log[n - 1].fn = "Derivative"
          THEN /\ result.log[n - 2].fn = "of_function"
               /\ result.log[n - 2].val = 0
               /\ \A m \in result.log[n - 1].from + 1 .. n - 2 :
                     (OfTermCalled(m) /\ IsAdd(result.log[m].term)) =>
                        result.log[m].val = 0
          ELSE /\ ~eq_integer_i32(heap, result.log[n - 1].term, 0)
               /\ ~eq_symbol(result.log[n - 1].term,
                             result.constants.symbol["Pi"])

C29_BudgetNeverUnderflows ==
    Ran => \A n \in DOMAIN result.log :
              /\ result.log[n].res # "Overflow"
              /\ result.log[n].before \in 0 .. input.recursion_limit
              /\ result.log[n].fn = "recurse" => result.log[n].before >= 1

\* A run with budget 1 in which the sum rule has called recurse on the sum
\* of derivatives it built.
C29_Witness ==
    /\ Ran
    /\ input.recursion_limit = 1
    /\ \E n \in DOMAIN result.log :
          /\ result.log[n].fn = "recurse"
          /\ result.log[n].before = 1
          /\ n > 2
          /\ result.log[n].from = n - 2
          /\ OfTermCalled(n + 1)
          /\ IsAdd(result.log[n + 1].term)
          /\ result.log[n].term \notin
                {heap[result.log[n + 1].term].payload.arguments[i] :
                    i \in DOMAIN heap[result.log[n + 1].term].payload.arguments}

====
